---- MODULE Spec2Model ----
(***************************************************************************)
(* Model of the streaming protocol client of openai-agents-chat-app:       *)
(*   - AgentStreamClient.processStream (the SSE frame decoder),            *)
(*   - AgentStreamClient's event handlers and the useAgentStream hook's    *)
(*     callbacks (the session reducer),                                    *)
(*   - AgentStreamClient.startStream / executeStream / handleStreamError / *)
(*     stopStream / reset (the retry and recovery controller).             *)
(*   - transformDatabaseMessagesToItems (the history transformer).         *)
(*                                                                         *)
(* Text on the wire is a sequence of one-character strings.  A JSON        *)
(* payload is abbreviated to a short character sequence ({e} stands for an *)
(* object of type "error", {t} for a text delta, {} for an object without  *)
(* a type); JSONParse accepts exactly the well-formed abbreviations.       *)
(***************************************************************************)
EXTENDS Integers, Sequences, FiniteSets, TLC

(***************************************************************************)
(* Bounds of the model.                                                    *)
(***************************************************************************)
MaxLines == 2
MaxRequests == 2
MaxCalls == 2       \* tool calls of one stream
MaxText == 1        \* text deltas of one response
MaxResponses == 1   \* response.created events of one stream
MaxRecords == 3     \* records of a stored conversation
MaxFields == 2      \* fields of the arguments of a tool call
MaxHandoffs == 2    \* agent_handoff items of one stream
MaxDeltas == 2      \* deltas of one kind in one stream, where the parts are studied
MaxBytes == 3       \* bytes of the body of one backend response
MaxChunks == 2      \* chunks the body is read in

VARIABLES
    \* ---- frame decoder (processStream) ----
    inputLines,     \* the lines the server sends, as indices into WireLines
    terminated,     \* whether the last line sent ends with a newline
    pos,            \* number of characters of the input already read
    buffer,         \* processStream's local `buffer`
    eventCount,     \* AgentStreamClient.eventCount
    handled,        \* the events handed to handleEvent, in order
    surfaced,       \* the messages handed to onError by handleEvent
    streamStatus,   \* "reading", "returned" or "threw" (processStream's outcome)
    cutInLine       \* history: some read ended in the middle of a line

VARIABLES
    \* ---- AgentStreamClient's fields ----
    messageBuffer,      \* the text accumulated from the deltas
    currentAgent,
    isComplete,
    retryCount,
    abortController,    \* 0 for undefined, else the identity of the controller
    currentToolCall,    \* the pending tool-call accumulator
    idCount,            \* how many call ids generateCallId has produced
    \* ---- the AbortControllers created so far ----
    ctlCount,           \* how many were created
    aborted,            \* those whose signal is aborted
    \* ---- the requests: one promise chain per startStream call ----
    req,
    \* ---- useAgentStream's state ----
    isStreaming,
    error,
    usage,
    messages,           \* the item list
    pendingText,        \* pendingTextRef.current
    debouncePending,    \* the timer of debounceRef is set and has not fired
    timers,             \* how many timers are set and have neither fired nor been cleared
    currentAgentName,   \* the currentAgent the installed handlers have captured
    \* ---- history ----
    watched,            \* the request whose history is kept
    hist

VARIABLES
    \* ---- the stream of one attempt, as the server produces it ----
    calls,          \* per tool call: how far the server is with it, and history
    responses,      \* the response.created events sent
    settledText     \* history: the text of the last response.output_text.done

VARIABLES
    \* ---- transformDatabaseMessagesToItems ----
    databaseMessages,   \* its argument, as indices into DatabaseRecords
    dbIndex,            \* the records the loop has been through
    items,              \* its local `items`
    toolCalls,          \* its local map, from call_id to the place in items
    transformStatus     \* "running", "returned" or "threw"

VARIABLES
    \* ---- the proxy route's forwardStream ----
    upstream,           \* the chunks the body of the backend response holds
    readCount,          \* how many of them reader.read() has returned
    decoderPending,     \* the bytes the TextDecoder keeps for the next decode
    written,            \* the chunks written to the writer so far
    closeCalls,         \* how often writer.close() was called
    proxyStatus,        \* "idle", "reading", "catch", "finally" or "done"
    readFailed,         \* history: reader.read() rejected
    clientGone          \* the client has cancelled the readable side

tvars == <<databaseMessages, dbIndex, items, toolCalls, transformStatus>>

pvars == <<upstream, readCount, decoderPending, written, closeCalls, proxyStatus,
           readFailed, clientGone>>

\* what lives outside the browser's streaming client
ovars == <<tvars, pvars>>

dvars == <<inputLines, terminated, pos, buffer, handled, surfaced, streamStatus, cutInLine>>

cvars == <<messageBuffer, currentAgent, isComplete, retryCount, abortController,
           currentToolCall, idCount, ctlCount, aborted>>

rvars == <<req, isStreaming, error, watched, hist>>

hvars == <<usage, messages, pendingText, debouncePending, timers, currentAgentName>>

svars == <<calls, responses, settledText>>

vars == <<dvars, eventCount, cvars, rvars, hvars, svars, ovars>>

(***************************************************************************)
(* Strings as character sequences.                                         *)
(***************************************************************************)
NL == "\n"
SP == " "

\* String.prototype.startsWith
StartsWith(s, p) == Len(s) >= Len(p) /\ SubSeq(s, 1, Len(p)) = p

\* String.prototype.trim (the only white space of the alphabet: space, newline)
IsSpace(c) == c = SP \/ c = NL

RECURSIVE TrimLeft(_)
TrimLeft(s) == IF s # <<>> /\ IsSpace(Head(s)) THEN TrimLeft(Tail(s)) ELSE s

RECURSIVE TrimRight(_)
TrimRight(s) ==
    IF s # <<>> /\ IsSpace(s[Len(s)]) THEN TrimRight(SubSeq(s, 1, Len(s) - 1)) ELSE s

Trim(s) == TrimRight(TrimLeft(s))

\* String.prototype.split('\n'): always at least one element
RECURSIVE SplitFrom(_, _, _)
SplitFrom(s, cur, acc) ==
    IF s = <<>> THEN Append(acc, cur)
    ELSE IF Head(s) = NL THEN SplitFrom(Tail(s), <<>>, Append(acc, cur))
    ELSE SplitFrom(Tail(s), Append(cur, Head(s)), acc)

Split(s) == SplitFrom(s, <<>>, <<>>)

(***************************************************************************)
(* The client's state as a record, so that its methods compose.            *)
(***************************************************************************)
\* private maxRetries = 3
maxRetries == 3

retryDelay == 1000

\* A JSON object is the set of its <<key, value>> pairs; an optional object is
\* undefined or defined with a value.  An undefined or null string is "".
Undefined == [defined |-> FALSE, value |-> {}]
Defined(v) == [defined |-> TRUE, value |-> v]

\* currentToolCall = {}
EmptyToolCall == [name |-> "", arguments |-> "", parsedArguments |-> Undefined, callId |-> ""]

Client ==
    [messageBuffer |-> messageBuffer, currentAgent |-> currentAgent,
     isComplete |-> isComplete, retryCount |-> retryCount,
     abortController |-> abortController, eventCount |-> eventCount,
     currentToolCall |-> currentToolCall, idCount |-> idCount,
     ctlCount |-> ctlCount, aborted |-> aborted]

SetClient(c) ==
    /\ messageBuffer' = c.messageBuffer
    /\ currentAgent' = c.currentAgent
    /\ isComplete' = c.isComplete
    /\ retryCount' = c.retryCount
    /\ abortController' = c.abortController
    /\ eventCount' = c.eventCount
    /\ currentToolCall' = c.currentToolCall
    /\ idCount' = c.idCount
    /\ ctlCount' = c.ctlCount
    /\ aborted' = c.aborted

\* this.abortController.abort(), when there is a controller
Abort(c) ==
    IF c.abortController # 0 THEN [c EXCEPT !.aborted = @ \cup {c.abortController}] ELSE c

\* this.abortController?.signal.aborted
SignalAborted(c) == c.abortController # 0 /\ c.abortController \in c.aborted

(***************************************************************************)
(* Error messages are sequences of fragments, cut so that every pattern    *)
(* the code searches for with includes() is a fragment of its own.         *)
(***************************************************************************)
Includes(msg, pattern) == \E i \in 1 .. Len(msg) : msg[i] = pattern

MessageEmpty == <<"Message cannot be empty">>

\* set by executeStream for a body tagged 'Backend service unavailable'
BackendNotAvailable ==
    <<"Backend service is not available", ". Please ensure the chat service is running on ",
      "port 8000", ".">>

\* surfaced by handleStreamError for the failures it does not retry
BackendUnavailableNotice ==
    <<"Backend service is unavailable", ". Please ensure the chat service is running on ",
      "port 8000", ".">>

RetryNotice(n) ==
    <<"Connection failed, retrying... (", ToString(n), "/", ToString(maxRetries), ")">>

TerminalPrefix == "Stream failed after maximum retries: "

TerminalNotice(msg) == <<TerminalPrefix>> \o msg

NoError == <<>>

(***************************************************************************)
(* The responses of POST /api/chat that are failures, route.ts 97-235, and *)
(* what fetch does with them.                                              *)
(***************************************************************************)
NoBody == [error |-> "", message |-> <<>>]

Failures == {"network", "r500", "r503json", "r503text", "r400text", "r400json"}

\* the response of a failure that is a response (not a rejected fetch)
Response(kind) ==
    IF kind = "r500" THEN          \* route.ts 223-233
        [status |-> "500", statusText |-> "Internal Server Error", json |-> TRUE,
         body |-> [error |-> "Internal Server Error",
                   message |-> <<"An unexpected error occurred">>]]
    ELSE IF kind = "r503json" THEN \* route.ts 209-220
        [status |-> "503", statusText |-> "Service Unavailable", json |-> TRUE,
         body |-> [error |-> "Backend service unavailable",
                   message |-> <<"Could not connect to the chat service. Please ensure the backend is running on ",
                                 "port 8000", ".">>]]
    ELSE IF kind = "r503text" THEN \* route.ts 122-127, the backend answered 503
        [status |-> "503", statusText |-> "Service Unavailable", json |-> FALSE,
         body |-> NoBody]
    ELSE IF kind = "r400text" THEN \* route.ts 101-107
        [status |-> "400", statusText |-> "Bad Request", json |-> FALSE, body |-> NoBody]
    ELSE                           \* "r400json": a body tagged 'Invalid JSON'
        [status |-> "400", statusText |-> "Bad Request", json |-> TRUE,
         body |-> [error |-> "Invalid JSON", message |-> <<"Request body is not JSON">>]]

\* executeStream's `if (!response.ok)` block, client.ts 131-153
ResponseErrorMessage(resp) ==
    LET http == <<"HTTP ", resp.status, ": ", resp.statusText>>
        named == IF resp.json /\ resp.body.message # <<>> THEN resp.body.message ELSE http
    IN  IF resp.json /\ resp.body.error = "Backend service unavailable"
        THEN BackendNotAvailable
        ELSE IF resp.json /\ resp.body.error \in {"Invalid JSON", "Missing request body"}
        THEN <<"Request validation error", ": ">> \o resp.body.message
        ELSE named

\* the Error a failed attempt throws
ErrorOf(kind) ==
    IF kind = "network" THEN [name |-> "TypeError", message |-> <<"Failed to fetch">>]
    ELSE IF kind = "abort"
    THEN [name |-> "AbortError", message |-> <<"The user aborted a request.">>]
    ELSE [name |-> "Error", message |-> ResponseErrorMessage(Response(kind))]

(***************************************************************************)
(* AgentStreamClient's methods.                                            *)
(***************************************************************************)
\* a reset() that clears everything but the retry counter
resetKeepsRetryCount(c) ==
    [Abort(c) EXCEPT !.messageBuffer = "", !.currentAgent = "", !.isComplete = FALSE,
                     !.eventCount = 0,
                     !.currentToolCall = EmptyToolCall, !.abortController = 0]

\* reset(), client.ts 545-557
reset(c) ==
    [Abort(c) EXCEPT !.messageBuffer = "", !.currentAgent = "", !.isComplete = FALSE,
                     !.retryCount = 0, !.eventCount = 0,
                     !.currentToolCall = EmptyToolCall, !.abortController = 0]

\* stopStream(), client.ts 523-529
stopStream(c) == [Abort(c) EXCEPT !.isComplete = TRUE]

\* `!message || (typeof message === 'string' && message.trim() === '')`
IsBlank(m) == m = <<>> \/ Trim(m) = <<>>

\* executeStream up to its fetch, client.ts 109-129: the request is skipped
\* when the current controller's signal is aborted, and else issued with the
\* current controller's signal
executeStream(c) ==
    IF SignalAborted(c) THEN [c |-> c, outcome |-> "skipped", signal |-> 0, notify |-> <<>>]
    ELSE [c |-> c, outcome |-> "fetch", signal |-> c.abortController, notify |-> <<>>]

\* a mutant of startStream: the controller is created before the message is
\* validated
startStreamControllerFirst(c, m) ==
    LET c1 == [c EXCEPT !.eventCount = 0, !.ctlCount = @ + 1,
                        !.abortController = c.ctlCount + 1]
    IN  IF IsBlank(m)
        THEN [c |-> c1, outcome |-> "invalid", signal |-> 0, notify |-> <<MessageEmpty>>]
        ELSE executeStream(c1)

\* startStream up to its first await, client.ts 82-97
startStream(c, m) ==
    LET c1 == [c EXCEPT !.eventCount = 0]
    IN  IF IsBlank(m)
        THEN [c |-> c1, outcome |-> "invalid", signal |-> 0, notify |-> <<MessageEmpty>>]
        ELSE executeStream([c1 EXCEPT !.ctlCount = @ + 1,
                                      !.abortController = c1.ctlCount + 1])

\* handleStreamError up to its await of the backoff timer, client.ts 484-520
\* the time handleStreamError sleeps before it calls executeStream again,
\* client.ts 507: this.retryDelay * this.retryCount, with the count it has
\* just advanced
BackoffWait(c) == retryDelay * c.retryCount

handleStreamError(c, err) ==
    IF c.retryCount < maxRetries
    THEN LET c1 == [c EXCEPT !.retryCount = @ + 1]
         IN  IF \/ Includes(err.message, "Backend service unavailable")
                \/ Includes(err.message, "port 8000")
                \/ Includes(err.message, "503")
             THEN [c |-> c1, next |-> "done", notify |-> BackendUnavailableNotice]
             ELSE IF Includes(err.message, "Request validation error")
             THEN [c |-> c1, next |-> "done", notify |-> err.message]
             ELSE [c |-> c1, next |-> "backoff", notify |-> RetryNotice(c1.retryCount)]
    ELSE [c |-> c, next |-> "done", notify |-> TerminalNotice(err.message)]

(***************************************************************************)
(* The wire.                                                               *)
(***************************************************************************)
DataMarker == <<"d", "a", "t", "a", ":", " ">>

PayloadError   == <<"{", "e", "}">>     \* {"type":"error","message":"x"}
PayloadText    == <<"{", "t", "}">>     \* a raw_response text delta
PayloadUntyped == <<"{", "}">>          \* well-formed JSON without a type
PayloadBad     == <<"{", "e">>          \* truncated: not JSON

\* The lines a server may send (without their newline).
WireLines == <<
    DataMarker \o PayloadError,                   \* 1 a well-formed error event
    DataMarker \o PayloadText,                    \* 2 a well-formed text delta
    DataMarker \o PayloadBad,                     \* 3 a malformed data frame
    <<>>,                                         \* 4 the blank separator line
    <<":", "p">>,                                 \* 5 a comment / ping
    DataMarker \o PayloadText \o <<SP>>,          \* 6 trailing white space
    <<"d", "a", "t", "a", ":">> \o PayloadError,  \* 7 no space after the colon
    DataMarker \o PayloadUntyped                  \* 8 an object of unknown type
>>

LineIds == 1 .. Len(WireLines)

\* JSON.parse on a payload: the parsed event, or a SyntaxError
JSONParse(p) ==
    IF p = PayloadError THEN [ok |-> TRUE, event |-> [type |-> "error", message |-> "x"]]
    ELSE IF p = PayloadText THEN [ok |-> TRUE, event |-> [type |-> "raw_response", message |-> ""]]
    ELSE IF p = PayloadUntyped THEN [ok |-> TRUE, event |-> [type |-> "undefined", message |-> ""]]
    ELSE [ok |-> FALSE, event |-> [type |-> "none", message |-> ""]]

RECURSIVE WireText(_, _)
WireText(ids, term) ==
    IF ids = <<>> THEN <<>>
    ELSE IF Len(ids) = 1 THEN WireLines[ids[1]] \o (IF term THEN <<NL>> ELSE <<>>)
    ELSE WireLines[ids[1]] \o <<NL>> \o WireText(Tail(ids), term)

\* the whole text of the response body
Input == WireText(inputLines, terminated)

(***************************************************************************)
(* processStream, client.ts 162-225.                                       *)
(***************************************************************************)
\* the accumulator threaded through the lines of one read
Acc(events, errs, count, threw) ==
    [events |-> events, errs |-> errs, count |-> count, threw |-> threw]

\* a mutant of DispatchEvent: an event of type "error" ends the read loop
DispatchEventErrorEnds(event, acc) ==
    [acc EXCEPT !.events = Append(@, event),
                !.count = @ + 1,
                !.errs = IF event.type = "error" THEN Append(@, event.message) ELSE @,
                !.threw = (event.type = "error")]

\* handleEvent as far as the decoder is concerned: the event is dispatched,
\* and an event of type "error" reaches onError (handleError)
DispatchEvent(event, acc) ==
    [acc EXCEPT !.events = Append(@, event),
                !.count = @ + 1,
                !.errs = IF event.type = "error" THEN Append(@, event.message) ELSE @]

\* a mutant of OnParseFailure: the SyntaxError leaves the read loop
OnParseFailureRethrow(acc) == [acc EXCEPT !.threw = TRUE]

\* catch (e) { log; // Don't throw here, just log and continue }
OnParseFailure(acc) == acc

\* the body of `for (const line of lines)`
ProcessLine(line, acc) ==
    IF StartsWith(line, DataMarker)
    THEN LET eventData == Trim(SubSeq(line, Len(DataMarker) + 1, Len(line)))
         IN  IF eventData # <<>>
             THEN LET parsed == JSONParse(eventData)
                  IN  IF parsed.ok THEN DispatchEvent(parsed.event, acc)
                      ELSE OnParseFailure(acc)
             ELSE acc
    ELSE acc    \* other lines are logged at most

RECURSIVE ProcessLines(_, _)
ProcessLines(lines, acc) ==
    IF lines = <<>> \/ acc.threw THEN acc
    ELSE ProcessLines(Tail(lines), ProcessLine(Head(lines), acc))

\* a mutant of Carry: the incomplete line is not kept for the next read
CarryNothing(lines) == <<>>

\* buffer = lines.pop() || ''
Carry(lines) == lines[Len(lines)]

\* const lines = buffer.split('\n') without the popped last element
CompleteLines(lines) == SubSeq(lines, 1, Len(lines) - 1)

\* one iteration of the read loop on a chunk: [buffer, acc]
DecodeChunk(buf, chunk, acc) ==
    LET lines == Split(buf \o chunk)
    IN  [buffer |-> Carry(lines), acc |-> ProcessLines(CompleteLines(lines), acc)]

\* after the loop: `if (buffer.trim())` the remaining lines are processed
DecodeRest(buf, acc) ==
    IF Trim(buf) # <<>> THEN ProcessLines(Split(buf), acc) ELSE acc

CurrentAcc == Acc(handled, surfaced, eventCount, FALSE)

SetAcc(acc) ==
    /\ handled' = acc.events
    /\ surfaced' = acc.errs
    /\ eventCount' = acc.count

\* reader.read() returns a chunk of n characters
ReadChunk(n) ==
    /\ streamStatus = "reading"
    /\ pos + n <= Len(Input)
    /\ LET r == DecodeChunk(buffer, SubSeq(Input, pos + 1, pos + n), CurrentAcc)
       IN  /\ buffer' = r.buffer
           /\ SetAcc(r.acc)
           /\ streamStatus' = IF r.acc.threw THEN "threw" ELSE "reading"
    /\ pos' = pos + n
    /\ cutInLine' = (cutInLine \/ (pos + n < Len(Input) /\ Input[pos + n] # NL))
    /\ UNCHANGED <<inputLines, terminated, cvars, rvars, hvars, svars, ovars>>

\* reader.read() returns done
ReadDone ==
    /\ streamStatus = "reading"
    /\ pos = Len(Input)
    /\ LET acc == DecodeRest(buffer, CurrentAcc)
       IN  /\ SetAcc(acc)
           /\ streamStatus' = IF acc.threw THEN "threw" ELSE "returned"
    /\ UNCHANGED <<inputLines, terminated, pos, buffer, cutInLine, cvars, rvars, hvars,
                   svars, ovars>>

RECURSIVE SeqsUpTo(_, _)
SeqsUpTo(S, n) ==
    IF n = 0 THEN {<<>>}
    ELSE LET shorter == SeqsUpTo(S, n - 1)
         IN  shorter \cup {Append(s, x) : s \in shorter, x \in S}

(***************************************************************************)
(* The event handlers of AgentStreamClient.  A handler takes the client    *)
(* and an event and yields the client after it and the callbacks it        *)
(* invoked, in order.  The events of type unknown_event and the run items  *)
(* other than tool_called, tool_output and the two handoff items are not   *)
(* in the alphabet of this model.                                          *)
(***************************************************************************)
Result(c, cbs) == [c |-> c, cbs |-> cbs]

\* the arguments of the tool calls of this model, as the server streams them
ArgFragments == <<"{\"ci", "ty\":\"Paris\"}">>

ArgsParis == {<<"city", "Paris">>}

\* the fields extractToolNameFromArguments() looks at, client.ts 566-579, in the
\* order a document lists them, and the values a field has in this model
ArgKeys == <<"city", "location", "query", "search", "url", "endpoint", "code", "language">>

ArgValues == {"", "Paris"}

RECURSIVE ObjectsUpTo(_)
ObjectsUpTo(n) ==
    IF n = 0 THEN {{}}
    ELSE LET smaller == ObjectsUpTo(n - 1)
         IN  smaller \union
             UNION {{o \union {<<ArgKeys[i], v>>} :
                         i \in {j \in DOMAIN ArgKeys : \A p \in o : p[1] # ArgKeys[j]},
                         v \in ArgValues} :
                    o \in {s \in smaller : Cardinality(s) = n - 1}}

\* the argument objects of at most MaxFields fields
ArgumentObjects == ObjectsUpTo(MaxFields)

RECURSIVE Join(_, _)
Join(parts, sep) ==
    IF parts = <<>> THEN ""
    ELSE IF Len(parts) = 1 THEN parts[1]
    ELSE parts[1] \o sep \o Join(Tail(parts), sep)

\* the members "key": "value" of a JSON document of args, from field i on
RECURSIVE JSONMembers(_, _, _)
JSONMembers(args, i, colon) ==
    IF i > Len(ArgKeys) THEN <<>>
    ELSE LET here == {p \in args : p[1] = ArgKeys[i]}
             rest == JSONMembers(args, i + 1, colon)
         IN  IF here = {} THEN rest
             ELSE <<"\"" \o ArgKeys[i] \o "\"" \o colon \o "\""
                        \o (CHOOSE p \in here : TRUE)[2] \o "\"">> \o rest

\* the document the server streams for args
JSONText(args) == "{" \o Join(JSONMembers(args, 1, ":"), ",") \o "}"

ArgumentTexts == {JSONText(o) : o \in ArgumentObjects}

\* JSON.parse on the text of the accumulated arguments
JSONParseArguments(text) ==
    IF text \in ArgumentTexts
    THEN [ok |-> TRUE, value |-> CHOOSE o \in ArgumentObjects : JSONText(o) = text]
    ELSE [ok |-> FALSE, value |-> {}]

\* JSON.stringify(args, null, 2)
JSONStringify(args) ==
    IF args = {} THEN "{}"
    ELSE "{\n  " \o Join(JSONMembers(args, 1, ": "), ",\n  ") \o "\n}"

\* args.key is truthy
Has(args, key) == \E p \in args : p[1] = key /\ p[2] # ""

\* extractToolNameFromArguments(), client.ts 560-582
extractToolNameFromArguments(tc) ==
    IF tc.parsedArguments.defined
    THEN LET args == tc.parsedArguments.value
         IN  IF Has(args, "city") \/ Has(args, "location") THEN "get_weather"
             ELSE IF Has(args, "query") \/ Has(args, "search") THEN "search_tool"
             ELSE IF Has(args, "url") \/ Has(args, "endpoint") THEN "web_request"
             ELSE IF Has(args, "code") \/ Has(args, "language") THEN "code_executor"
             ELSE "unknown_tool"
    ELSE "unknown_tool"

\* generateCallId(), client.ts 585-587: an id no call has had yet
generateCallId(c) == "gen_" \o ToString(c.idCount + 1)

\* handleRawResponse, client.ts 254-347
handleRawResponse(c, e) ==
    IF e.event_type = "response.output_text.delta"
    THEN LET c1 == [c EXCEPT !.messageBuffer = @ \o e.delta]
         IN  Result(c1, <<[cb |-> "onTextDelta", delta |-> e.delta,
                           fullText |-> c1.messageBuffer]>>)
    ELSE IF e.event_type = "response.output_text.done"
    THEN Result([c EXCEPT !.messageBuffer = e.text],
                <<[cb |-> "onTextComplete", text |-> e.text]>>)
    ELSE IF e.event_type = "response.reasoning_summary_text.delta"
    THEN Result(c, <<[cb |-> "onReasoningDelta", delta |-> e.delta]>>)
    ELSE IF e.event_type = "response.refusal.delta"
    THEN Result(c, <<[cb |-> "onRefusalDelta", delta |-> e.delta]>>)
    ELSE IF e.event_type = "response.created"
    THEN Result([c EXCEPT !.messageBuffer = ""], <<[cb |-> "onResponseStart"]>>)
    ELSE IF e.event_type = "response.completed"
    THEN Result(c, <<[cb |-> "onResponseComplete"]>>)
    ELSE IF e.event_type = "response.function_call_arguments.delta"
    THEN Result([c EXCEPT !.currentToolCall.arguments = @ \o e.delta,
                          !.currentToolCall.callId = e.call_id], <<>>)
    ELSE IF e.event_type = "response.function_call_arguments.done"
    THEN IF c.currentToolCall.arguments # ""
         THEN LET parsed == JSONParseArguments(c.currentToolCall.arguments)
                  tc == [c.currentToolCall EXCEPT !.parsedArguments = Defined(parsed.value)]
                  toolName == extractToolNameFromArguments(tc)
                  callId == generateCallId(c)
              IN  IF parsed.ok
                  THEN Result([c EXCEPT !.currentToolCall =
                                            [tc EXCEPT !.name = toolName, !.callId = callId],
                                        !.idCount = @ + 1],
                              <<[cb |-> "onToolCalled", toolName |-> toolName,
                                 args |-> parsed.value, callId |-> callId]>>)
                  ELSE Result([c EXCEPT !.currentToolCall.parsedArguments = Defined({})],
                              <<>>)
         ELSE Result(c, <<>>)
    ELSE IF e.event_type = "response.output_item.added"
    THEN IF e.item_type = "function_call"
         THEN Result([c EXCEPT !.currentToolCall = EmptyToolCall], <<>>)
         ELSE Result(c, <<>>)
    ELSE Result(c, <<>>)

\* a || b on strings
Or(a, b) == IF a # "" THEN a ELSE b

\* handleRunItem, client.ts 349-442
handleRunItem(c, e) ==
    LET tc == c.currentToolCall
    IN  IF e.name = "tool_called"
        THEN IF tc.name # "" /\ tc.callId # ""
             THEN Result(c, <<>>)   \* taken for the echo of the early notification
             ELSE LET toolName == Or(e.tool_name, extractToolNameFromArguments(tc))
                      toolArgs == IF e.tool_arguments.defined THEN e.tool_arguments.value
                                  ELSE IF tc.parsedArguments.defined
                                  THEN tc.parsedArguments.value
                                  ELSE {}
                      fresh == e.call_id = "" /\ tc.callId = ""
                      callId == Or(e.call_id, Or(tc.callId, generateCallId(c)))
                  IN  Result([c EXCEPT !.currentToolCall.callId = callId,
                                       !.currentToolCall.name = toolName,
                                       !.idCount = IF fresh THEN @ + 1 ELSE @],
                             <<[cb |-> "onToolCalled", toolName |-> toolName,
                                args |-> toolArgs, callId |-> callId]>>)
        ELSE IF e.name = "tool_output"
        THEN LET outputToolName == Or(e.tool_name, Or(tc.name, "unknown_tool"))
                 fresh == e.call_id = "" /\ tc.callId = ""
                 outputCallId == Or(e.call_id, Or(tc.callId, generateCallId(c)))
             IN  Result([c EXCEPT !.currentToolCall = EmptyToolCall,
                                  !.idCount = IF fresh THEN @ + 1 ELSE @],
                        <<[cb |-> "onToolOutput", toolName |-> outputToolName,
                           output |-> e.output, callId |-> outputCallId]>>)
        ELSE IF e.name = "handoff_requested"
        THEN Result(c, <<[cb |-> "onHandoffRequested", targetAgent |-> e.target_agent,
                          reason |-> e.reason]>>)
        ELSE IF e.name = "handoff_occured"
        THEN Result(c, <<[cb |-> "onHandoffComplete", targetAgent |-> e.target_agent,
                          previousAgent |-> e.previous_agent]>>)
        ELSE Result(c, <<>>)

\* handleStreamComplete, client.ts 454-462
handleStreamComplete(c, e) ==
    Result([c EXCEPT !.isComplete = TRUE],
           <<[cb |-> "onStreamComplete", finalOutput |-> e.final_output,
              usage |-> e.usage]>>)

\* a mutant of handleError: the error opens an assistant message for its text
handleErrorOpensMessage(c, e) ==
    Result(c, <<[cb |-> "onResponseStart"], [cb |-> "onError", message |-> e.message]>>)

\* handleError, client.ts 464-482
handleError(c, e) ==
    LET m == e.message
        userFriendlyMessage ==
            IF Includes(m, "timeout")
            THEN <<"Request timed out. The server might be busy. Please try again.">>
            ELSE IF Includes(m, "rate limit")
            THEN <<"Too many requests. Please wait a moment before trying again.">>
            ELSE IF Includes(m, "authentication")
            THEN <<"Authentication failed. Please refresh the page and try again.">>
            ELSE IF Includes(m, "Backend service unavailable") \/ Includes(m, "port 8000")
            THEN <<"Chat service is not available. Please ensure the backend server is running on ",
                   "port 8000", ".">>
            ELSE m
    IN  Result(c, <<[cb |-> "onError", message |-> userFriendlyMessage]>>)

\* handleAgentUpdated, client.ts 444-452
handleAgentUpdated(c, e) ==
    Result([c EXCEPT !.currentAgent = e.agent_name],
           <<[cb |-> "onAgentChanged", agentName |-> e.agent_name]>>)

\* a mutant of handleEvent: an event of an unknown type is reported to onError
handleEventReportsUnknown(c, e) ==
    IF e.type = "raw_response" THEN handleRawResponse(c, e)
    ELSE IF e.type = "run_item" THEN handleRunItem(c, e)
    ELSE IF e.type = "agent_updated" THEN handleAgentUpdated(c, e)
    ELSE IF e.type = "stream_complete" THEN handleStreamComplete(c, e)
    ELSE IF e.type = "error" THEN handleError(c, e)
    ELSE Result(c, <<[cb |-> "onError", message |-> <<"Unknown event type">>]>>)

\* handleEvent, client.ts 227-252
handleEvent(c, e) ==
    IF e.type = "raw_response" THEN handleRawResponse(c, e)
    ELSE IF e.type = "run_item" THEN handleRunItem(c, e)
    ELSE IF e.type = "agent_updated" THEN handleAgentUpdated(c, e)
    ELSE IF e.type = "stream_complete" THEN handleStreamComplete(c, e)
    ELSE IF e.type = "error" THEN handleError(c, e)
    ELSE Result(c, <<>>)

(***************************************************************************)
(* The callbacks useAgentStream installs on the client, as functions of    *)
(* the hook's state.                                                       *)
(***************************************************************************)
NoUsage == "null"

NoOutput == ""

Hook ==
    [isStreaming |-> isStreaming, error |-> error, usage |-> usage, messages |-> messages,
     pendingText |-> pendingText, debouncePending |-> debouncePending, timers |-> timers,
     currentAgentName |-> currentAgentName]

SetHook(h) ==
    /\ isStreaming' = h.isStreaming
    /\ error' = h.error
    /\ usage' = h.usage
    /\ messages' = h.messages
    /\ pendingText' = h.pendingText
    /\ debouncePending' = h.debouncePending
    /\ timers' = h.timers
    /\ currentAgentName' = h.currentAgentName

OutputTextPart(text) == [type |-> "output_text", text |-> text]

Message(role, text) == [type |-> "message", role |-> role, content |-> <<OutputTextPart(text)>>]

IsAssistantMessage(item) == item.type = "message" /\ item.role = "assistant"

\* content.findIndex(c => c.type === 'output_text'); 0 stands for -1
OutputContentIndex(content) ==
    IF \E i \in 1 .. Len(content) : content[i].type = "output_text"
    THEN CHOOSE i \in 1 .. Len(content) :
            /\ content[i].type = "output_text"
            /\ \A j \in 1 .. (i - 1) : content[j].type # "output_text"
    ELSE 0

\* updateTextContent, part_003 44-73
updateTextContent(prev, fullText) ==
    IF prev # <<>> /\ IsAssistantMessage(prev[Len(prev)])
    THEN LET lastItem == prev[Len(prev)]
             i == OutputContentIndex(lastItem.content)
             content == IF i > 0 THEN [lastItem.content EXCEPT ![i].text = fullText]
                        ELSE Append(lastItem.content, OutputTextPart(fullText))
         IN  [prev EXCEPT ![Len(prev)].content = content]
    ELSE prev

\* content.findIndex(c => c.type === type); 0 stands for -1
ContentIndex(content, type) ==
    IF \E i \in 1 .. Len(content) : content[i].type = type
    THEN CHOOSE i \in 1 .. Len(content) :
            /\ content[i].type = type
            /\ \A j \in 1 .. (i - 1) : content[j].type # type
    ELSE 0

\* a mutant of onReasoningDelta: the delta replaces the text of the part
onReasoningDeltaReplaces(prev, delta) ==
    IF prev # <<>> /\ IsAssistantMessage(prev[Len(prev)])
    THEN LET lastItem == prev[Len(prev)]
             reasoningIndex == ContentIndex(lastItem.content, "reasoning")
             content == IF reasoningIndex > 0
                        THEN [lastItem.content EXCEPT ![reasoningIndex].text = delta]
                        ELSE Append(lastItem.content, [type |-> "reasoning", text |-> delta])
         IN  [prev EXCEPT ![Len(prev)].content = content]
    ELSE prev

\* onReasoningDelta, part_003 108-135
onReasoningDelta(prev, delta) ==
    IF prev # <<>> /\ IsAssistantMessage(prev[Len(prev)])
    THEN LET lastItem == prev[Len(prev)]
             reasoningIndex == ContentIndex(lastItem.content, "reasoning")
             content == IF reasoningIndex > 0
                        THEN [lastItem.content EXCEPT ![reasoningIndex].text = @ \o delta]
                        ELSE Append(lastItem.content, [type |-> "reasoning", text |-> delta])
         IN  [prev EXCEPT ![Len(prev)].content = content]
    ELSE prev

\* onRefusalDelta, part_003 138-165
onRefusalDelta(prev, delta) ==
    IF prev # <<>> /\ IsAssistantMessage(prev[Len(prev)])
    THEN LET lastItem == prev[Len(prev)]
             refusalIndex == ContentIndex(lastItem.content, "refusal")
             content == IF refusalIndex > 0
                        THEN [lastItem.content EXCEPT ![refusalIndex].text = @ \o delta]
                        ELSE Append(lastItem.content, [type |-> "refusal", text |-> delta])
         IN  [prev EXCEPT ![Len(prev)].content = content]
    ELSE prev

\* the item onToolCalled appends, part_003 173-187
ToolCallItem(toolName, args, callId) ==
    [type |-> "tool_call", id |-> callId, tool_type |-> toolName, name |-> toolName,
     call_id |-> callId, status |-> "in_progress", arguments |-> JSONStringify(args),
     parsedArguments |-> args, output |-> NoOutput]

\* the condition of onToolOutput's map, part_003 192-193
OnToolOutputMatches(item, toolName, callId) ==
    /\ item.type = "tool_call"
    /\ \/ item.call_id = callId
       \/ item.name = toolName /\ item.status = "in_progress"

\* a mutant of onToolOutput: the items that do not match are dropped
onToolOutputKeepsMatched(prev, toolName, output, callId) ==
    LET matched == SelectSeq(prev, LAMBDA item : OnToolOutputMatches(item, toolName, callId))
    IN  [i \in 1 .. Len(matched) |->
            [matched[i] EXCEPT !.output = output, !.status = "completed"]]

\* onToolOutput's setMessages, part_003 189-203
onToolOutput(prev, toolName, output, callId) ==
    [i \in 1 .. Len(prev) |->
        IF OnToolOutputMatches(prev[i], toolName, callId)
        THEN [prev[i] EXCEPT !.output = output, !.status = "completed"]
        ELSE prev[i]]

\* one callback of the hook, part_003 80-257
\* a mutant of ClearDebounce: the timer is forgotten and not cleared
ClearDebounceForgets(h) == [h EXCEPT !.debouncePending = FALSE]

\* if (debounceRef.current) clearTimeout(debounceRef.current)
ClearDebounce(h) ==
    [h EXCEPT !.timers = IF h.debouncePending THEN @ - 1 ELSE @, !.debouncePending = FALSE]

\* onTextDelta, part_003 80-105: the text is stored, the timer of debounceRef is
\* cleared and a new one is set
onTextDelta(h, delta, fullText) ==
    [ClearDebounce([h EXCEPT !.pendingText = fullText])
         EXCEPT !.timers = @ + 1, !.debouncePending = TRUE]

\* a mutant of onResponseStart: an assistant message that ends the list is taken
\* for the message of the new response
onResponseStartReusesLast(h) ==
    IF h.messages # <<>> /\ IsAssistantMessage(h.messages[Len(h.messages)])
    THEN [h EXCEPT !.error = NoError]
    ELSE [h EXCEPT !.error = NoError, !.messages = Append(@, Message("assistant", ""))]

\* onResponseStart, part_003 225-237
onResponseStart(h) ==
    [h EXCEPT !.error = NoError, !.messages = Append(@, Message("assistant", ""))]

\* the handoffItem of onAgentChanged, part_003 211-217
AgentHandoffItem(agentName, previous) ==
    [type |-> "agent_handoff", handoff_type |-> "completed", target_agent |-> agentName,
     previous_agent |-> previous]

DefaultAgent == "chat_agent"

\* useAgentStream's currentAgent, part_003 31-35
CurrentAgentOf(prev) ==
    LET handoffItems == SelectSeq(prev, LAMBDA m : m.type = "agent_handoff")
    IN  IF handoffItems = <<>> THEN DefaultAgent
        ELSE Or(handoffItems[Len(handoffItems)].target_agent, DefaultAgent)

ApplyCallback(h, cb) ==
    IF cb.cb = "onTextDelta"
    THEN onTextDelta(h, cb.delta, cb.fullText)
    ELSE IF cb.cb = "onReasoningDelta"
    THEN [h EXCEPT !.messages = onReasoningDelta(@, cb.delta)]
    ELSE IF cb.cb = "onRefusalDelta"
    THEN [h EXCEPT !.messages = onRefusalDelta(@, cb.delta)]
    ELSE IF cb.cb = "onTextComplete"
    THEN [h EXCEPT !.messages = updateTextContent(@, cb.text)]
    ELSE IF cb.cb = "onToolCalled"
    THEN [h EXCEPT !.messages = Append(@, ToolCallItem(cb.toolName, cb.args, cb.callId))]
    ELSE IF cb.cb = "onToolOutput"
    THEN [h EXCEPT !.messages = onToolOutput(@, cb.toolName, cb.output, cb.callId)]
    ELSE IF cb.cb = "onResponseStart"
    THEN onResponseStart(h)
    ELSE IF cb.cb = "onError"
    THEN [h EXCEPT !.error = cb.message, !.isStreaming = FALSE]
    ELSE IF cb.cb = "onStreamComplete"
    THEN [ClearDebounce(h) EXCEPT !.isStreaming = FALSE, !.usage = cb.usage,
                                  !.messages = updateTextContent(@, cb.finalOutput)]
    ELSE IF cb.cb = "onAgentChanged"
    THEN IF h.currentAgentName # "" /\ h.currentAgentName # cb.agentName
         THEN [h EXCEPT !.messages =
                            Append(@, AgentHandoffItem(cb.agentName, h.currentAgentName))]
         ELSE h
    ELSE h      \* onResponseComplete, onHandoffRequested, onHandoffComplete: the
                \* hook installs no handler, and `this.onX?.(...)` calls nothing

RECURSIVE ApplyCallbacks(_, _)
ApplyCallbacks(h, cbs) ==
    IF cbs = <<>> THEN h ELSE ApplyCallbacks(ApplyCallback(h, Head(cbs)), Tail(cbs))

(***************************************************************************)
(* transformDatabaseMessagesToItems, types.ts 266-318.  A record of the    *)
(* stored conversation is a record with the fields it has; the call ids of *)
(* the function_call records of one conversation are distinct.             *)
(***************************************************************************)
\* the records a stored conversation is made of
DatabaseRecords == <<
    [type |-> "function_call", id |-> "fc_1", name |-> "get_weather", call_id |-> "call_1",
     arguments |-> ArgFragments[1] \o ArgFragments[2]],
    [type |-> "function_call", id |-> "fc_2", name |-> "get_weather", call_id |-> "call_2",
     arguments |-> "{}", status |-> "in_progress"],
    [type |-> "function_call_output", call_id |-> "call_1", output |-> "o1"],
    [type |-> "function_call_output", call_id |-> "call_2", output |-> "o2"],
    [type |-> "message", role |-> "assistant",
     content |-> <<[type |-> "output_text", text |-> "a"]>>],
    [role |-> "user", content |-> "h"],                                 \* legacy format
    [type |-> "function_call", id |-> "fc_3", tool_type |-> "search", call_id |-> "call_3",
     arguments |-> ArgFragments[1]]                                     \* truncated arguments
>>

\* dbMsg.field, "" when the record has no such field
Field(dbMsg, field) == IF field \in DOMAIN dbMsg THEN dbMsg[field] ELSE ""

\* 'type' in dbMsg && dbMsg.type === tag
Tagged(dbMsg, tag) == "type" \in DOMAIN dbMsg /\ dbMsg.type = tag

\* a mutant of MergeOutput: the output is stored and the status is kept
MergeOutputKeepStatus(existingTool, output) == [existingTool EXCEPT !.output = output.output]

\* existingTool.output = output.output; existingTool.status = "completed"
MergeOutput(existingTool, output) ==
    [existingTool EXCEPT !.output = output.output, !.status = "completed"]

\* funcCall.parsedArguments || (funcCall.arguments ? JSON.parse(funcCall.arguments) : {})
ParsedArgumentsOf(funcCall) ==
    IF "parsedArguments" \in DOMAIN funcCall THEN [ok |-> TRUE, value |-> funcCall.parsedArguments]
    ELSE IF Field(funcCall, "arguments") # "" THEN JSONParseArguments(funcCall.arguments)
    ELSE [ok |-> TRUE, value |-> {}]

\* the toolItem of a function_call record, types.ts 285-294
ToolItemOf(funcCall) ==
    [type |-> "tool_call",
     tool_type |-> Or(Field(funcCall, "name"), Field(funcCall, "tool_type")),
     status |-> Or(Field(funcCall, "status"), "completed"),
     id |-> Field(funcCall, "id"),
     name |-> Field(funcCall, "name"),
     call_id |-> Field(funcCall, "call_id"),
     arguments |-> Field(funcCall, "arguments"),
     parsedArguments |-> ParsedArgumentsOf(funcCall).value,
     output |-> NoOutput]

\* one iteration of `for (const dbMsg of databaseMessages)` on the state
\* t = [items, toolCalls, threw]
TransformRecord(t, dbMsg) ==
    IF Tagged(dbMsg, "function_call_output")
    THEN IF dbMsg.call_id \in DOMAIN t.toolCalls
         THEN [t EXCEPT !.items[t.toolCalls[dbMsg.call_id]] = MergeOutput(@, dbMsg)]
         ELSE t
    ELSE IF Tagged(dbMsg, "function_call")
    THEN IF ParsedArgumentsOf(dbMsg).ok
         THEN [t EXCEPT !.items = Append(@, ToolItemOf(dbMsg)),
                        !.toolCalls = [c \in DOMAIN @ \cup {dbMsg.call_id} |->
                                          IF c = dbMsg.call_id THEN Len(t.items) + 1
                                          ELSE @[c]]]
         ELSE [t EXCEPT !.threw = TRUE]      \* the SyntaxError of JSON.parse
    ELSE IF Tagged(dbMsg, "message")
    THEN [t EXCEPT !.items = Append(@, dbMsg)]
    ELSE IF "content" \in DOMAIN dbMsg /\ "role" \in DOMAIN dbMsg /\ "type" \notin DOMAIN dbMsg
    THEN [t EXCEPT !.items = Append(@, [type |-> "message", role |-> dbMsg.role,
                                        content |-> dbMsg.content])]
    ELSE t

\* the loop takes the next record
TransformStep ==
    /\ transformStatus = "running"
    /\ dbIndex < Len(databaseMessages)
    /\ LET t == TransformRecord([items |-> items, toolCalls |-> toolCalls, threw |-> FALSE],
                                DatabaseRecords[databaseMessages[dbIndex + 1]])
       IN  /\ items' = t.items
           /\ toolCalls' = t.toolCalls
           /\ transformStatus' = IF t.threw THEN "threw" ELSE "running"
    /\ dbIndex' = dbIndex + 1
    /\ UNCHANGED <<databaseMessages, pvars, dvars, eventCount, cvars, rvars, hvars, svars>>

\* return items
TransformReturn ==
    /\ transformStatus = "running"
    /\ dbIndex = Len(databaseMessages)
    /\ transformStatus' = "returned"
    /\ UNCHANGED <<databaseMessages, dbIndex, items, toolCalls, pvars, dvars, eventCount,
                   cvars, rvars, hvars, svars>>

\* the sequences of distinct elements of S of length at most n
RECURSIVE DistinctSeqsUpTo(_, _)
DistinctSeqsUpTo(S, n) ==
    IF n = 0 THEN {<<>>}
    ELSE LET shorter == DistinctSeqsUpTo(S, n - 1)
             longer == {Append(q, x) : q \in shorter, x \in S}
         IN  shorter \cup {q \in longer : \A i \in 1 .. Len(q) - 1 : q[i] # q[Len(q)]}

\* const items = []; const toolCalls = new Map(), with no record to go through
IdleTransformer ==
    /\ databaseMessages = <<>>
    /\ dbIndex = 0
    /\ items = <<>>
    /\ toolCalls = <<>>
    /\ transformStatus = "running"

\* no request has reached the proxy route
IdleProxy ==
    /\ upstream = <<>>
    /\ readCount = 0
    /\ decoderPending = <<>>
    /\ written = <<>>
    /\ closeCalls = 0
    /\ proxyStatus = "idle"
    /\ readFailed = FALSE
    /\ clientGone = FALSE

(***************************************************************************)
(* Requests.  A request is the promise chain of one startStream call: it   *)
(* is idle (not made yet), has an attempt in flight ("fetch": the fetch    *)
(* and the reading of its body), sleeps in handleStreamError's backoff     *)
(* timer ("backoff"), or has settled ("done").  signal is the controller   *)
(* whose signal the attempt in flight was given, inHandler whether that    *)
(* attempt was issued by handleStreamError (a retry) rather than by        *)
(* startStream.                                                            *)
(*                                                                         *)
(* One request, `watched`, is followed through its life in `hist`: the     *)
(* attempts it issued, how many messages it handed to onError, how many of *)
(* them were the terminal notice, what the last of them was, whether all   *)
(* its attempts failed with a transient transport error, the number of its *)
(* notifications before its first service-unavailable failure, whether     *)
(* stopStream was called while it was in flight, and whether it issued an  *)
(* attempt or handed a message to onError after that.                      *)
(***************************************************************************)
Requests == 1 .. MaxRequests

\* the message the user submits: white space only, or a text
Messages == {<<SP>>, <<"h">>}

\* messages that are empty or white space only
BlankMessages == {<<>>, <<SP>>, <<NL>>, <<SP, NL>>}

IdleRequest == [pc |-> "idle", signal |-> 0, inHandler |-> FALSE]

\* a request with no attempt in flight: asleep in the backoff, or settled
Settled(pc) == [pc |-> pc, signal |-> 0, inHandler |-> FALSE]

NoHistory ==
    [attempts |-> 0, notified |-> 0, terminal |-> 0,
     last |-> [kind |-> "none", remediation |-> FALSE],
     transientOnly |-> TRUE, unavailableAt |-> <<>>,
     stopped |-> FALSE, attemptAfterStop |-> FALSE, noticeAfterStop |-> FALSE]

Transient == {"network", "r500"}
Unavailable == {"r503json", "r503text"}

\* What the events of a body that was read to its end leave in the client's
\* text buffer and accumulator (the events themselves are those of
\* ReducerSpec): nothing, or a text delta and the first fragment of the
\* arguments of a tool call.
StreamEffects ==
    {[changed |-> FALSE, text |-> "", acc |-> EmptyToolCall],
     [changed |-> TRUE, text |-> "a",
      acc |-> [EmptyToolCall EXCEPT !.arguments = ArgFragments[1], !.callId = "call_1"]]}

\* the usage a stream_complete event reports
SomeUsage == "usage"

StreamCompleteEvent(finalOutput) ==
    [type |-> "stream_complete", final_output |-> finalOutput, usage |-> SomeUsage]

\* new AgentStreamClient(), client.ts 26-42
ClientInit ==
    /\ messageBuffer = ""
    /\ currentAgent = ""
    /\ isComplete = FALSE
    /\ retryCount = 0
    /\ abortController = 0
    /\ eventCount = 0
    /\ currentToolCall = EmptyToolCall
    /\ idCount = 0
    /\ ctlCount = 0
    /\ aborted = {}

\* useAgentStream's initial state and no request made yet
HookInit ==
    /\ req = [r \in Requests |-> IdleRequest]
    /\ isStreaming = FALSE
    /\ error = NoError
    /\ usage = NoUsage
    /\ messages = <<>>
    /\ pendingText = ""
    /\ debouncePending = FALSE
    /\ timers = 0
    /\ currentAgentName = DefaultAgent
    /\ hist = NoHistory

Calls == 1 .. MaxCalls

\* a tool call the server has not begun
NewCall == [stage |-> "new", notices |-> 0, early |-> FALSE, malformed |-> FALSE]

NoSettledText == [open |-> FALSE, index |-> 0, text |-> ""]

\* a stream of which nothing was sent yet
IdleServer ==
    /\ calls = [k \in Calls |-> NewCall]
    /\ responses = 0
    /\ settledText = NoSettledText

\* a response body that has not been read yet
IdleDecoder ==
    /\ pos = 0
    /\ buffer = <<>>
    /\ handled = <<>>
    /\ surfaced = <<>>
    /\ streamStatus = "reading"
    /\ cutInLine = FALSE

DecoderInit ==
    /\ inputLines \in SeqsUpTo(LineIds, MaxLines)
    /\ terminated \in BOOLEAN
    /\ IdleDecoder
    /\ ClientInit
    /\ HookInit
    /\ IdleServer
    /\ IdleTransformer
    /\ IdleProxy
    /\ watched = 1

DecoderNext ==
    \/ \E n \in 1 .. (Len(Input) - pos) : ReadChunk(n)
    \/ ReadDone

DecoderSpec == DecoderInit /\ [][DecoderNext]_vars

(***************************************************************************)
(* The retry and recovery controller driven through useAgentStream.        *)
(***************************************************************************)
\* the history of the watched request after a step of request r
Record(r, h) == hist' = IF r = watched THEN h ELSE hist

IsTerminalNotice(msg) == msg # <<>> /\ msg[1] = TerminalPrefix

\* the remediation both service-unavailable messages carry
CarriesRemediation(msg) ==
    /\ Includes(msg, ". Please ensure the chat service is running on ")
    /\ Includes(msg, "port 8000")

\* what a message handed to onError is
NoticeClass(msg) ==
    [kind |-> IF msg \in {RetryNotice(n) : n \in 1 .. maxRetries} THEN "retry"
              ELSE IF IsTerminalNotice(msg) THEN "terminal"
              ELSE IF msg = MessageEmpty THEN "empty"
              ELSE "other",
     remediation |-> CarriesRemediation(msg)]

\* the history h after its request handed msg to onError
Heard(h, msg) ==
    [h EXCEPT !.notified = @ + 1,
              !.terminal = IF IsTerminalNotice(msg) THEN @ + 1 ELSE @,
              !.last = NoticeClass(msg),
              !.noticeAfterStop = h.stopped]

\* a mutant of OnError: the notice is also appended to the conversation
OnErrorAppendsNotice(msg) ==
    SetHook([ApplyCallback(Hook, [cb |-> "onError", message |-> msg]) EXCEPT
                !.messages = Append(@, Message("assistant", msg))])

\* client.onError of the hook, part_003 239-243
OnError(msg) == SetHook(ApplyCallback(Hook, [cb |-> "onError", message |-> msg]))

\* useAgentStream's startStream, part_003 268-296: reset() and then
\* client.startStream(message) up to its first await
HookStartStream(r, m) ==
    /\ ~isStreaming
    /\ req[r].pc = "idle"
    /\ IF r = 1 THEN TRUE ELSE req[r - 1].pc # "idle"    \* requests are made in order
    /\ LET h == [Hook EXCEPT !.messages = Append(@, Message("user", m)),
                             !.isStreaming = TRUE, !.error = NoError, !.usage = NoUsage]
           out == startStream(reset(Client), m)
       IN  /\ SetClient(out.c)
           /\ IF out.outcome = "invalid"
              THEN /\ req' = [req EXCEPT ![r].pc = "done"]
                   /\ SetHook(ApplyCallback(h, [cb |-> "onError", message |-> out.notify[1]]))
                   /\ Record(r, [Heard(hist, out.notify[1]) EXCEPT !.transientOnly = FALSE])
              ELSE /\ req' = [req EXCEPT ![r].pc = "fetch", ![r].signal = out.signal]
                   /\ SetHook(h)
                   /\ Record(r, [hist EXCEPT !.attempts = 1])
    /\ UNCHANGED <<ovars, dvars, svars, watched>>

\* the attempt in flight fails: fetch rejects, or the response is not ok and
\* executeStream throws; the catch of startStream (client.ts 98-106) or of
\* handleStreamError (513-515) runs handleStreamError
AttemptFails(r, kind) ==
    /\ req[r].pc = "fetch"
    /\ req[r].signal \notin aborted
    /\ LET h == handleStreamError(Client, ErrorOf(kind))
       IN  /\ SetClient(h.c)
           /\ req' = [req EXCEPT ![r] = Settled(h.next)]
           /\ OnError(h.notify)
           /\ Record(r, [Heard(hist, h.notify) EXCEPT
                           !.transientOnly = @ /\ kind \in Transient,
                           !.unavailableAt = IF kind \in Unavailable /\ @ = <<>>
                                             THEN <<hist.notified>> ELSE @])
    /\ UNCHANGED <<ovars, dvars, svars, watched>>

\* the attempt in flight was given a signal that is aborted: fetch, or the
\* read of the body, rejects with an AbortError.  startStream's catch returns
\* on it; handleStreamError's catch hands it to handleStreamError
AttemptAborted(r) ==
    /\ req[r].pc = "fetch"
    /\ req[r].signal \in aborted
    /\ IF req[r].inHandler
       THEN LET h == handleStreamError(Client, ErrorOf("abort"))
            IN  /\ SetClient(h.c)
                /\ req' = [req EXCEPT ![r] = Settled(h.next)]
                /\ OnError(h.notify)
                /\ Record(r, [Heard(hist, h.notify) EXCEPT !.transientOnly = FALSE])
       ELSE /\ req' = [req EXCEPT ![r] = Settled("done")]
            /\ Record(r, [hist EXCEPT !.transientOnly = FALSE])
            /\ UNCHANGED <<cvars, eventCount, isStreaming, error, hvars>>
    /\ UNCHANGED <<ovars, dvars, svars, watched>>

\* the backoff timer fires: `await this.executeStream(message, sessionId)` in
\* handleStreamError, client.ts 509-512
BackoffElapsed(r) ==
    /\ req[r].pc = "backoff"
    /\ LET e == executeStream(Client)
       IN  IF e.outcome = "skipped"
           THEN /\ req' = [req EXCEPT ![r].pc = "done"]
                /\ Record(r, [hist EXCEPT !.transientOnly = FALSE])
           ELSE /\ req' = [req EXCEPT ![r] = [pc |-> "fetch", signal |-> e.signal,
                                              inHandler |-> TRUE]]
                /\ Record(r, [hist EXCEPT !.attempts = @ + 1, !.attemptAfterStop = hist.stopped])
    /\ UNCHANGED <<ovars, dvars, cvars, eventCount, isStreaming, error, hvars, svars, watched>>

\* the body of the attempt in flight is read to its end, its events leaving
\* eff in the client; with complete, it held a stream_complete event
\* (handleStreamComplete, client.ts 454-462, and the hook's onStreamComplete,
\* part_003 245-257)
AttemptCompletes(r, eff, complete) ==
    /\ req[r].pc = "fetch"
    /\ req[r].signal \notin aborted
    /\ req' = [req EXCEPT ![r] = Settled("done")]
    /\ Record(r, [hist EXCEPT !.transientOnly = FALSE])
    /\ LET c == IF eff.changed
                THEN [Client EXCEPT !.messageBuffer = eff.text, !.currentToolCall = eff.acc]
                ELSE Client
           h == IF eff.changed THEN [Hook EXCEPT !.pendingText = eff.text] ELSE Hook
           res == IF complete THEN handleStreamComplete(c, StreamCompleteEvent(c.messageBuffer))
                  ELSE Result(c, <<>>)
       IN  /\ SetClient(res.c)
           /\ SetHook(ApplyCallbacks(h, res.cbs))
    /\ UNCHANGED <<ovars, dvars, svars, watched>>

InFlight(q) == q.pc \in {"fetch", "backoff"}

\* useAgentStream's stopStream, part_003 298-303
HookStopStream ==
    /\ SetClient(stopStream(Client))
    /\ isStreaming' = FALSE
    /\ hist' = IF InFlight(req[watched]) THEN [hist EXCEPT !.stopped = TRUE] ELSE hist
    /\ UNCHANGED <<ovars, dvars, req, error, hvars, svars, watched>>

RetryInit ==
    /\ inputLines = <<>>
    /\ terminated = FALSE
    /\ IdleDecoder
    /\ ClientInit
    /\ HookInit
    /\ IdleServer
    /\ IdleTransformer
    /\ IdleProxy
    /\ watched \in Requests

RetryNext ==
    \/ \E r \in Requests, m \in Messages : HookStartStream(r, m)
    \/ \E r \in Requests, kind \in Failures : AttemptFails(r, kind)
    \/ \E r \in Requests : AttemptAborted(r)
    \/ \E r \in Requests : BackoffElapsed(r)
    \/ \E r \in Requests, eff \in StreamEffects, complete \in BOOLEAN :
          AttemptCompletes(r, eff, complete)
    \/ HookStopStream

RetrySpec == RetryInit /\ [][RetryNext]_vars

(***************************************************************************)
(* The session reducer: the events of the body of one attempt, handled one *)
(* at a time by handleEvent and the hook's callbacks, and the debounce     *)
(* timer.  The server streams the output items of a response one after the *)
(* other: the arguments of one function call at a time, the calls in       *)
(* order; the run items of a call follow its arguments, or come without    *)
(* them.  Every tool call is a call of get_weather; an arguments delta     *)
(* carries the call id of the backend, and a tool_called run item carries  *)
(* the name and the arguments of the tool or neither.                      *)
(***************************************************************************)
ToolName == "get_weather"

ToolOutputText == "ok"

\* the call id the backend gave call k
BackendCallId(k) == "call_" \o ToString(k)

RawResponse(eventType) == [type |-> "raw_response", event_type |-> eventType]

TextDeltaEvent(delta) ==
    [type |-> "raw_response", event_type |-> "response.output_text.delta", delta |-> delta]

TextDoneEvent(text) ==
    [type |-> "raw_response", event_type |-> "response.output_text.done", text |-> text]

FunctionCallAdded ==
    [type |-> "raw_response", event_type |-> "response.output_item.added",
     item_type |-> "function_call"]

FunctionCallArgsEvent(delta, callId) ==
    [type |-> "raw_response", event_type |-> "response.function_call_arguments.delta",
     delta |-> delta, call_id |-> callId]

ToolCalledEvent(toolName, toolArguments, callId) ==
    [type |-> "run_item", name |-> "tool_called", tool_name |-> toolName,
     tool_arguments |-> toolArguments, call_id |-> callId]

ToolOutputEvent(toolName, output, callId) ==
    [type |-> "run_item", name |-> "tool_output", tool_name |-> toolName,
     output |-> output, call_id |-> callId]

\* the body of the attempt is being read and has not ended
Open == req[1].pc = "fetch" /\ ~isComplete

\* `await this.handleEvent(event)`: the handler of the client and, in it, the
\* callbacks of the hook (the count of the events is processStream's)
Deliver(e) ==
    LET r == handleEvent(Client, e)
    IN  /\ SetClient(r.c)
        /\ SetHook(ApplyCallbacks(Hook, r.cbs))

\* the number of tool-called notifications the event e causes
ToolNotices(e) ==
    LET cbs == handleEvent(Client, e).cbs
    IN  Cardinality({i \in 1 .. Len(cbs) : cbs[i].cb = "onToolCalled"})

RawStages == {"added", "d1", "d2"}

\* the server may begin call k
MayBegin(k) ==
    /\ calls[k].stage = "new"
    /\ IF k = 1 THEN TRUE ELSE calls[k - 1].stage # "new"
    /\ \A j \in Calls : calls[j].stage \notin RawStages

ResponseCreated ==
    /\ Open
    /\ responses < MaxResponses
    /\ Deliver(RawResponse("response.created"))
    /\ responses' = responses + 1
    /\ UNCHANGED <<ovars, dvars, req, watched, hist, calls, settledText>>

ResponseCompleted ==
    /\ Open
    /\ responses > 0
    /\ Deliver(RawResponse("response.completed"))
    /\ UNCHANGED <<ovars, dvars, req, watched, hist, svars>>

\* a text delta, while the text accumulated is shorter than max
TextDeltaWithin(delta, max) ==
    /\ Open
    /\ Len(messageBuffer) < max
    /\ Deliver(TextDeltaEvent(delta))
    /\ settledText' = NoSettledText
    /\ UNCHANGED <<ovars, dvars, req, watched, hist, calls, responses>>

TextDelta(delta) == TextDeltaWithin(delta, MaxText)

TextDone(text) ==
    /\ Open
    /\ Deliver(TextDoneEvent(text))
    /\ settledText' = IF messages # <<>> /\ IsAssistantMessage(messages[Len(messages)])
                      THEN [open |-> TRUE, index |-> Len(messages), text |-> text]
                      ELSE NoSettledText
    /\ UNCHANGED <<ovars, dvars, req, watched, hist, calls, responses>>

\* the callback of the timer set by onTextDelta, part_003 90-102
DebounceFires ==
    /\ timers > 0
    /\ \E own \in BOOLEAN :        \* the timer that fires is the one of debounceRef
          /\ IF own THEN debouncePending
             ELSE timers > (IF debouncePending THEN 1 ELSE 0)
          /\ SetHook([Hook EXCEPT !.messages = updateTextContent(@, pendingText),
                                  !.timers = @ - 1,
                                  !.debouncePending = IF own THEN FALSE ELSE @])
    /\ UNCHANGED <<ovars, dvars, eventCount, cvars, req, watched, hist, svars>>

OutputItemAdded(k) ==
    /\ Open
    /\ MayBegin(k)
    /\ Deliver(FunctionCallAdded)
    /\ calls' = [calls EXCEPT ![k].stage = "added"]
    /\ UNCHANGED <<ovars, dvars, req, watched, hist, responses, settledText>>

ArgsDelta(k) ==
    /\ Open
    /\ calls[k].stage \in {"added", "d1"}
    /\ LET n == IF calls[k].stage = "added" THEN 1 ELSE 2
       IN  /\ Deliver(FunctionCallArgsEvent(ArgFragments[n], BackendCallId(k)))
           /\ calls' = [calls EXCEPT ![k].stage = IF n = 1 THEN "d1" ELSE "d2"]
    /\ UNCHANGED <<ovars, dvars, req, watched, hist, responses, settledText>>

ArgsDone(k) ==
    /\ Open
    /\ calls[k].stage \in RawStages
    /\ LET e == RawResponse("response.function_call_arguments.done")
       IN  /\ Deliver(e)
           /\ calls' = [calls EXCEPT ![k] = [stage |-> "done",
                                             notices |-> @.notices + ToolNotices(e),
                                             early |-> ToolNotices(e) > 0,
                                             malformed |->
                                                 /\ currentToolCall.arguments # ""
                                                 /\ ~JSONParseArguments(
                                                        currentToolCall.arguments).ok]]
    /\ UNCHANGED <<ovars, dvars, req, watched, hist, responses, settledText>>

ToolCalled(k, named, ided) ==
    /\ Open
    /\ IF calls[k].stage = "done" THEN TRUE ELSE MayBegin(k)
    /\ LET e == ToolCalledEvent(IF named THEN ToolName ELSE "",
                                IF named THEN Defined(ArgsParis) ELSE Undefined,
                                IF ided THEN BackendCallId(k) ELSE "")
       IN  /\ Deliver(e)
           /\ calls' = [calls EXCEPT ![k].stage = "called",
                                     ![k].notices = @ + ToolNotices(e),
                                     ![k].malformed = FALSE]
    /\ UNCHANGED <<ovars, dvars, req, watched, hist, responses, settledText>>

ToolOutput(k, named, ided) ==
    /\ Open
    /\ calls[k].stage = "called"
    /\ Deliver(ToolOutputEvent(IF named THEN ToolName ELSE "", ToolOutputText,
                               IF ided THEN BackendCallId(k) ELSE ""))
    /\ calls' = [calls EXCEPT ![k].stage = "output"]
    /\ UNCHANGED <<ovars, dvars, req, watched, hist, responses, settledText>>

\* a handoff_requested or handoff_occured run item
HandoffEvent(name) ==
    IF name = "handoff_requested"
    THEN [type |-> "run_item", name |-> name, target_agent |-> "billing_agent",
          reason |-> "billing question"]
    ELSE [type |-> "run_item", name |-> name, target_agent |-> "billing_agent",
          previous_agent |-> "chat_agent"]

Handoff(name) ==
    /\ Open
    /\ Deliver(HandoffEvent(name))
    /\ UNCHANGED <<ovars, dvars, req, watched, hist, svars>>

\* an error event of the backend; the reading of the body goes on after it
ErrorEvent(message) ==
    /\ Open
    /\ Deliver([type |-> "error", message |-> message])
    /\ UNCHANGED <<ovars, dvars, req, watched, hist, svars>>

StreamComplete(finalOutput) ==
    /\ Open
    /\ Deliver(StreamCompleteEvent(finalOutput))
    /\ settledText' = NoSettledText
    /\ UNCHANGED <<ovars, dvars, req, watched, hist, calls, responses>>

\* the texts a server may send where the client has accumulated messageBuffer
ServerTexts == {messageBuffer, "b"}

\* the state after useAgentStream's startStream("h") on a fresh hook: the
\* first attempt is in flight
ReducerInit ==
    /\ inputLines = <<>>
    /\ terminated = FALSE
    /\ IdleDecoder
    /\ messageBuffer = ""
    /\ currentAgent = ""
    /\ isComplete = FALSE
    /\ retryCount = 0
    /\ abortController = 1
    /\ eventCount = 0
    /\ currentToolCall = EmptyToolCall
    /\ idCount = 0
    /\ ctlCount = 1
    /\ aborted = {}
    /\ req = [r \in Requests |-> IF r = 1 THEN [pc |-> "fetch", signal |-> 1,
                                               inHandler |-> FALSE]
                                 ELSE IdleRequest]
    /\ isStreaming = TRUE
    /\ error = NoError
    /\ usage = NoUsage
    /\ messages = <<Message("user", <<"h">>)>>
    /\ pendingText = ""
    /\ debouncePending = FALSE
    /\ timers = 0
    /\ currentAgentName = DefaultAgent
    /\ hist = [NoHistory EXCEPT !.attempts = 1]
    /\ watched = 1
    /\ IdleServer
    /\ IdleTransformer
    /\ IdleProxy

ReducerNext ==
    \/ ResponseCreated
    \/ ResponseCompleted
    \/ TextDelta("a")
    \/ \E text \in ServerTexts : TextDone(text)
    \/ DebounceFires
    \/ \E k \in Calls : OutputItemAdded(k)
    \/ \E k \in Calls : ArgsDelta(k)
    \/ \E k \in Calls : ArgsDone(k)
    \/ \E k \in Calls, named \in BOOLEAN, ided \in BOOLEAN : ToolCalled(k, named, ided)
    \/ \E k \in Calls, named \in BOOLEAN, ided \in BOOLEAN : ToolOutput(k, named, ided)
    \/ Handoff("handoff_requested")
    \/ Handoff("handoff_occured")
    \/ ErrorEvent(<<"timeout">>)
    \/ \E finalOutput \in ServerTexts : StreamComplete(finalOutput)

ReducerSpec == ReducerInit /\ [][ReducerNext]_vars

(***************************************************************************)
(* The resolution of the name of a tool call: the stream is taken up after *)
(* the server has announced the first call and streamed the document of    *)
(* its arguments, whatever these arguments are.                            *)
(***************************************************************************)
ResolveInit ==
    /\ inputLines = <<>>
    /\ terminated = FALSE
    /\ IdleDecoder
    /\ messageBuffer = ""
    /\ currentAgent = ""
    /\ isComplete = FALSE
    /\ retryCount = 0
    /\ abortController = 1
    /\ eventCount = 0
    /\ \E args \in ArgumentObjects :
           currentToolCall = [EmptyToolCall EXCEPT !.arguments = JSONText(args),
                                                   !.callId = BackendCallId(1)]
    /\ idCount = 0
    /\ ctlCount = 1
    /\ aborted = {}
    /\ req = [r \in Requests |-> IF r = 1 THEN [pc |-> "fetch", signal |-> 1,
                                               inHandler |-> FALSE]
                                 ELSE IdleRequest]
    /\ isStreaming = TRUE
    /\ error = NoError
    /\ usage = NoUsage
    /\ messages = <<Message("user", <<"h">>)>>
    /\ pendingText = ""
    /\ debouncePending = FALSE
    /\ timers = 0
    /\ currentAgentName = DefaultAgent
    /\ hist = [NoHistory EXCEPT !.attempts = 1]
    /\ watched = 1
    /\ calls = [k \in Calls |-> IF k = 1 THEN [NewCall EXCEPT !.stage = "d2"] ELSE NewCall]
    /\ responses = 0
    /\ settledText = NoSettledText
    /\ IdleTransformer
    /\ IdleProxy

ResolveNext ==
    \/ \E k \in Calls : ArgsDone(k)
    \/ \E k \in Calls, named \in BOOLEAN, ided \in BOOLEAN : ToolCalled(k, named, ided)
    \/ \E k \in Calls, named \in BOOLEAN, ided \in BOOLEAN : ToolOutput(k, named, ided)

ResolveSpec == ResolveInit /\ [][ResolveNext]_vars

(***************************************************************************)
(* The changes of agent in one stream.  The handlers of the hook read the  *)
(* currentAgent of the render that installed them; a render that finds     *)
(* another currentAgent runs the effect again, which stops the client of   *)
(* the stream and installs the handlers on a new one.                      *)
(***************************************************************************)
Agents == {DefaultAgent, "weather_agent"}

AgentUpdatedEvent(agentName) == [type |-> "agent_updated", agent_name |-> agentName]

\* the agent_handoff items of the list
HandoffItems == {i \in 1 .. Len(messages) : messages[i].type = "agent_handoff"}

AgentUpdated(agentName) ==
    /\ Open
    /\ Cardinality(HandoffItems) < MaxHandoffs
    /\ Deliver(AgentUpdatedEvent(agentName))
    /\ UNCHANGED <<ovars, dvars, req, watched, hist, svars>>

\* a render in which useMemo finds another currentAgent: the cleanup of the
\* effect, part_003 259-265, and the effect again, 75-78
Render ==
    /\ CurrentAgentOf(messages) # currentAgentName
    /\ currentAgentName' = CurrentAgentOf(messages)
    /\ debouncePending' = ClearDebounce(Hook).debouncePending
    /\ timers' = ClearDebounce(Hook).timers
    /\ SetClient(stopStream(Client))
    /\ UNCHANGED <<ovars, dvars, rvars, usage, messages, pendingText, svars>>

AgentNext ==
    \/ ResponseCreated
    \/ TextDelta("a")
    \/ DebounceFires
    \/ \E agentName \in Agents : AgentUpdated(agentName)
    \/ Render
    \/ \E finalOutput \in ServerTexts : StreamComplete(finalOutput)

AgentSpec == ReducerInit /\ [][AgentNext]_vars

(***************************************************************************)
(* The content parts of the messages of one stream: text, reasoning and    *)
(* refusal deltas in any order, between the other events that change the   *)
(* end of the list.                                                        *)
(***************************************************************************)
PartDeltaEvent(type, delta) ==
    [type |-> "raw_response",
     event_type |-> IF type = "reasoning" THEN "response.reasoning_summary_text.delta"
                    ELSE "response.refusal.delta",
     delta |-> delta]

\* the text deltas the server sends
TextDeltas == {"a"}

\* the deltas the server sends for a part
PartDeltas(type) == IF type = "reasoning" THEN {"r", "s"} ELSE {"f"}

\* the text of the part of the given type of the item, "" when it has none
PartText(item, type) ==
    IF item.type = "message" /\ ContentIndex(item.content, type) > 0
    THEN item.content[ContentIndex(item.content, type)].text
    ELSE ""

\* the texts of the parts of the given type of the first n items, in one
RECURSIVE AllPartText(_, _)
AllPartText(type, n) ==
    IF n = 0 THEN "" ELSE AllPartText(type, n - 1) \o PartText(messages[n], type)

PartDelta(type, delta) ==
    /\ Open
    /\ Len(AllPartText(type, Len(messages))) < MaxDeltas
    /\ Deliver(PartDeltaEvent(type, delta))
    /\ UNCHANGED <<ovars, dvars, req, watched, hist, svars>>

PartsNext ==
    \/ ResponseCreated
    \/ \E delta \in TextDeltas : TextDeltaWithin(delta, MaxDeltas)
    \/ DebounceFires
    \/ \E delta \in PartDeltas("reasoning") : PartDelta("reasoning", delta)
    \/ \E delta \in PartDeltas("refusal") : PartDelta("refusal", delta)
    \/ ToolCalled(1, TRUE, TRUE)
    \/ StreamComplete(messageBuffer)

PartsSpec == ReducerInit /\ [][PartsNext]_vars

(***************************************************************************)
(* A stream that fails while its body is read, and the retries: the        *)
(* server answers every attempt with the stream of the request from its    *)
(* beginning.                                                              *)
(***************************************************************************)
\* the backoff timer fires as in BackoffElapsed; the server begins the stream
\* of the new attempt
Reattempt(r) ==
    /\ req[r].pc = "backoff"
    /\ LET e == executeStream(Client)
       IN  IF e.outcome = "skipped"
           THEN /\ req' = [req EXCEPT ![r].pc = "done"]
                /\ Record(r, [hist EXCEPT !.transientOnly = FALSE])
                /\ UNCHANGED svars
           ELSE /\ req' = [req EXCEPT ![r] = [pc |-> "fetch", signal |-> e.signal,
                                              inHandler |-> TRUE]]
                /\ Record(r, [hist EXCEPT !.attempts = @ + 1,
                                          !.attemptAfterStop = hist.stopped])
                /\ calls' = [k \in Calls |-> NewCall]
                /\ responses' = 0
                /\ settledText' = NoSettledText
    /\ UNCHANGED <<ovars, dvars, cvars, eventCount, isStreaming, error, hvars, watched>>

\* the read of the body rejects before the stream has come to its
\* stream_complete event: executeStream throws, as in AttemptFails
BodyFails(r) ==
    /\ ~isComplete
    /\ AttemptFails(r, "network")

RecoverNext ==
    \/ ResponseCreated
    \/ TextDelta("a")
    \/ DebounceFires
    \/ ToolCalled(1, TRUE, TRUE)
    \/ ToolOutput(1, TRUE, TRUE)
    \/ StreamComplete(messageBuffer)
    \/ BodyFails(1)
    \/ Reattempt(1)

RecoverSpec == ReducerInit /\ [][RecoverNext]_vars

\* one stream with text and tool calls, whose attempt does not fail
StreamNext ==
    \/ ResponseCreated
    \/ TextDelta("a")
    \/ DebounceFires
    \/ \E k \in Calls : ToolCalled(k, TRUE, TRUE)
    \/ \E k \in Calls : ToolOutput(k, TRUE, TRUE)
    \/ StreamComplete(messageBuffer)

StreamSpec == ReducerInit /\ [][StreamNext]_vars

(***************************************************************************)
(* The history transformer run on a stored conversation.                   *)
(***************************************************************************)
TransformInit ==
    /\ databaseMessages \in DistinctSeqsUpTo(DOMAIN DatabaseRecords, MaxRecords)
    /\ dbIndex = 0
    /\ items = <<>>
    /\ toolCalls = <<>>
    /\ transformStatus = "running"
    /\ IdleProxy
    /\ inputLines = <<>>
    /\ terminated = FALSE
    /\ IdleDecoder
    /\ ClientInit
    /\ HookInit
    /\ IdleServer
    /\ watched = 1

TransformNext == TransformStep \/ TransformReturn

TransformSpec == TransformInit /\ [][TransformNext]_vars

(***************************************************************************)
(* The proxy route, route.ts 97-235: forwardStream, 148-188.  The body of  *)
(* the backend response is UTF-8 text: "a" is a one-byte character, and    *)
(* the bytes "L", "C" are the two bytes of one two-byte character.         *)
(***************************************************************************)
Characters == {"a", "U+00E9"}

\* encoder.encode(chunk): the bytes of a text
RECURSIVE TextEncode(_)
TextEncode(chars) ==
    IF chars = <<>> THEN <<>>
    ELSE (IF Head(chars) = "a" THEN <<"a">>
          ELSE IF Head(chars) = "U+00E9" THEN <<"L", "C">>
          ELSE <<"EF", "BF", "BD">>) \o TextEncode(Tail(chars))       \* U+FFFD

\* a mutant of TextDecode: every chunk is decoded on its own, without
\* { stream: true }
RECURSIVE TextDecodeAlone(_)
TextDecodeAlone(bytes) ==
    IF bytes = <<>> THEN [chars |-> <<>>, pending |-> <<>>]
    ELSE IF Head(bytes) = "a"
    THEN [TextDecodeAlone(Tail(bytes)) EXCEPT !.chars = <<"a">> \o @]
    ELSE IF Head(bytes) = "L" /\ Len(bytes) >= 2 /\ bytes[2] = "C"
    THEN [TextDecodeAlone(Tail(Tail(bytes))) EXCEPT !.chars = <<"U+00E9">> \o @]
    ELSE [TextDecodeAlone(Tail(bytes)) EXCEPT !.chars = <<"U+FFFD">> \o @]

\* decoder.decode(value, { stream: true }) on the bytes kept from the last
\* decode followed by value: the characters, and the bytes kept for the next
\* decode (a character that has begun and is not complete); bytes that are
\* no character become U+FFFD
RECURSIVE TextDecode(_)
TextDecode(bytes) ==
    IF bytes = <<>> THEN [chars |-> <<>>, pending |-> <<>>]
    ELSE IF Head(bytes) = "a"
    THEN [TextDecode(Tail(bytes)) EXCEPT !.chars = <<"a">> \o @]
    ELSE IF Head(bytes) = "L"
    THEN IF Len(bytes) = 1 THEN [chars |-> <<>>, pending |-> bytes]
         ELSE IF bytes[2] = "C"
         THEN [TextDecode(Tail(Tail(bytes))) EXCEPT !.chars = <<"U+00E9">> \o @]
         ELSE [TextDecode(Tail(bytes)) EXCEPT !.chars = <<"U+FFFD">> \o @]
    ELSE [TextDecode(Tail(bytes)) EXCEPT !.chars = <<"U+FFFD">> \o @]

\* `data: ${JSON.stringify(errorEvent)}\n\n`, route.ts 170-177, as one chunk
ErrorFrame == <<"data: {\"type\":\"error\",\"message\":\"Stream connection lost. Please try again.\"}\n\n">>

\* the ways the network may cut bytes into at most n chunks, none empty
RECURSIVE Chunkings(_, _)
Chunkings(bytes, n) ==
    IF bytes = <<>> THEN {<<>>}
    ELSE IF n = 0 THEN {}
    ELSE UNION {{<<SubSeq(bytes, 1, k)>> \o rest :
                    rest \in Chunkings(SubSeq(bytes, k + 1, Len(bytes)), n - 1)} :
                k \in 1 .. Len(bytes)}

\* the bodies a backend may send: texts of at most MaxBytes bytes
Bodies ==
    {TextEncode(chars) : chars \in {t \in SeqsUpTo(Characters, MaxBytes) :
                                       Len(TextEncode(t)) <= MaxBytes}}

\* the backend has answered with a body and forwardStream() was called
ProxyInit ==
    /\ upstream \in UNION {Chunkings(body, MaxChunks) : body \in Bodies}
    /\ readCount = 0
    /\ decoderPending = <<>>
    /\ written = <<>>
    /\ closeCalls = 0
    /\ proxyStatus = "reading"
    /\ readFailed = FALSE
    /\ clientGone = FALSE
    /\ IdleTransformer
    /\ inputLines = <<>>
    /\ terminated = FALSE
    /\ IdleDecoder
    /\ ClientInit
    /\ HookInit
    /\ IdleServer
    /\ watched = 1

\* reader.read() returns a chunk: it is decoded, encoded and written,
\* route.ts 153-165; writing rejects when the client is gone
ProxyRead ==
    /\ proxyStatus = "reading"
    /\ readCount < Len(upstream)
    /\ LET d == TextDecode(decoderPending \o upstream[readCount + 1])
       IN  /\ decoderPending' = d.pending
           /\ IF clientGone
              THEN /\ proxyStatus' = "catch"
                   /\ UNCHANGED written
              ELSE /\ written' = Append(written, TextEncode(d.chars))
                   /\ UNCHANGED proxyStatus
    /\ readCount' = readCount + 1
    /\ UNCHANGED <<upstream, closeCalls, readFailed, clientGone,
                   tvars, dvars, eventCount, cvars, rvars, hvars, svars>>

\* reader.read() returns done: break, route.ts 154-158
ProxyReadDone ==
    /\ proxyStatus = "reading"
    /\ readCount = Len(upstream)
    /\ proxyStatus' = "finally"
    /\ UNCHANGED <<upstream, readCount, decoderPending, written, closeCalls, readFailed,
                   clientGone, tvars, dvars, eventCount, cvars, rvars, hvars, svars>>

\* reader.read() rejects: the connection to the backend is lost
ProxyReadFails ==
    /\ proxyStatus = "reading"
    /\ proxyStatus' = "catch"
    /\ readFailed' = TRUE
    /\ UNCHANGED <<upstream, readCount, decoderPending, written, closeCalls,
                   clientGone, tvars, dvars, eventCount, cvars, rvars, hvars, svars>>

\* the catch, route.ts 166-180: the error event is written, and a rejection
\* of that write is logged
ProxyCatch ==
    /\ proxyStatus = "catch"
    /\ written' = IF clientGone THEN written ELSE Append(written, ErrorFrame)
    /\ proxyStatus' = "finally"
    /\ UNCHANGED <<upstream, readCount, decoderPending, closeCalls, readFailed,
                   clientGone, tvars, dvars, eventCount, cvars, rvars, hvars, svars>>

\* the finally, route.ts 181-187: writer.close(), a rejection is logged
ProxyFinally ==
    /\ proxyStatus = "finally"
    /\ closeCalls' = closeCalls + 1
    /\ proxyStatus' = "done"
    /\ UNCHANGED <<upstream, readCount, decoderPending, written, readFailed,
                   clientGone, tvars, dvars, eventCount, cvars, rvars, hvars, svars>>

\* the client cancels the response while it is forwarded
ClientCancels ==
    /\ proxyStatus \in {"reading", "catch", "finally"}
    /\ ~clientGone
    /\ clientGone' = TRUE
    /\ UNCHANGED <<upstream, readCount, decoderPending, written, closeCalls, proxyStatus,
                   readFailed, tvars, dvars, eventCount, cvars, rvars, hvars, svars>>

ProxyNext ==
    \/ ProxyRead
    \/ ProxyReadDone
    \/ ProxyReadFails
    \/ ProxyCatch
    \/ ProxyFinally
    \/ ClientCancels

ProxySpec == ProxyInit /\ [][ProxyNext]_vars

(***************************************************************************)
(* Claims about the session reducer.                                       *)
(***************************************************************************)
\* item.content's output_text part
OutputText(item) == item.content[OutputContentIndex(item.content)].text

\* C3: text-done is authoritative. Once response.output_text.done with text T
\* has been handled for the open assistant message, and until a later text
\* delta, text done or stream_complete, the output_text part of that message
\* is T in every state, also after the debounce timer has fired.
C3_TextDoneAuthoritative ==
    settledText.open => OutputText(messages[settledText.index]) = settledText.text

\* C4: duplicate suppression. A tool call that was announced early, when its
\* arguments were complete, is announced exactly once: the later tool_called
\* run item of the same call causes no further notification (and so no
\* second tool_call item).
C4_DuplicateSuppressed ==
    \A k \in Calls : calls[k].early => calls[k].notices = 1

\* the tool_output events the server may send next
NextToolOutputs ==
    {ToolOutputEvent(IF named THEN ToolName ELSE "", ToolOutputText,
                     IF ided THEN BackendCallId(k) ELSE "") :
        k \in {j \in Calls : Open /\ calls[j].stage = "called"},
        named \in BOOLEAN, ided \in BOOLEAN}

\* C5: when the tool-output notification carries call id c and a tool_call
\* item with call_id c exists, the items with that call_id become completed
\* with the given output and every other item is unchanged, also an
\* in_progress tool call of the same tool.
C5_OutputCompletesMatchedItem ==
    \A e \in NextToolOutputs :
        LET cb == handleEvent(Client, e).cbs[1]
            after == ApplyCallback(Hook, cb).messages
            Matches(item) == item.type = "tool_call" /\ item.call_id = cb.callId
        IN  (\E i \in 1 .. Len(messages) : Matches(messages[i])) =>
                /\ Len(after) = Len(messages)
                /\ \A i \in 1 .. Len(messages) :
                      after[i] = IF Matches(messages[i])
                                 THEN [messages[i] EXCEPT !.output = cb.output,
                                                          !.status = "completed"]
                                 ELSE messages[i]

\* the place in ms of the assistant message the latest response.created opened
\* (onResponseStart alone appends assistant messages), 0 when there is none
LatestAssistant(ms) ==
    IF \E i \in 1 .. Len(ms) : IsAssistantMessage(ms[i])
    THEN CHOOSE i \in 1 .. Len(ms) :
            /\ IsAssistantMessage(ms[i])
            /\ \A j \in (i + 1) .. Len(ms) : ~IsAssistantMessage(ms[j])
    ELSE 0

\* C12: wherever a stream_complete event with final_output F and usage U is
\* processed, right after it the client is complete, isStreaming is false, the
\* usage state is U and the output_text part of the assistant message opened by
\* the latest response.created is F.
C12_StreamCompleteFinal ==
    \A finalOutput \in ServerTexts :
        LET e == StreamCompleteEvent(finalOutput)
            r == handleEvent(Client, e)
            h == ApplyCallbacks(Hook, r.cbs)
            k == LatestAssistant(messages)
        IN  Open =>
                /\ r.c.isComplete
                /\ ~h.isStreaming
                /\ h.usage = e.usage
                /\ k > 0 => OutputText(h.messages[k]) = finalOutput

\* C13: a tool_call item whose status is completed or failed is not changed by
\* any later tool_output event, whatever its call id, tool name and output: the
\* item after the event's notification is the item before it.
C13_CompletedImmutable ==
    \A toolName \in {ToolName, ""}, output \in {ToolOutputText, "late"},
       callId \in {BackendCallId(k) : k \in Calls} \cup {""} :
        LET e == ToolOutputEvent(toolName, output, callId)
            after == ApplyCallbacks(Hook, handleEvent(Client, e).cbs).messages
        IN  Open =>
                \A i \in 1 .. Len(messages) :
                    (/\ messages[i].type = "tool_call"
                     /\ messages[i].status \in {"completed", "failed"})
                    => after[i] = messages[i]

\* C14: append-only ordering. No step of the reducer removes or reorders items:
\* the list never gets shorter, every item keeps its place and its type, and an
\* item that a step changes is either the last assistant message, changed in
\* its content only, or a tool_call item, changed in output and status only.
C14_AppendOnly ==
    [][/\ Len(messages') >= Len(messages)
       /\ \A i \in 1 .. Len(messages) :
             /\ messages'[i].type = messages[i].type
             /\ messages'[i] # messages[i] =>
                   \/ /\ i = LatestAssistant(messages)
                      /\ messages'[i] = [messages[i] EXCEPT !.content = messages'[i].content]
                   \/ /\ messages[i].type = "tool_call"
                      /\ messages'[i] = [messages[i] EXCEPT !.output = messages'[i].output,
                                                            !.status = messages'[i].status]
      ]_vars

\* items were appended after the assistant message, whose text was then written
\* in place, and a tool call was completed in place
C14_Witness ==
    /\ Len(messages) >= 4
    /\ \E i \in 1 .. Len(messages) : IsAssistantMessage(messages[i]) /\ OutputText(messages[i]) # ""
    /\ \E i \in 1 .. Len(messages) :
          messages[i].type = "tool_call" /\ messages[i].status = "completed"

\* C15: a step that processes an error event changes the error state and the
\* streaming flag only: the item list after it is the list before it, and so
\* are the usage, the pending text and its timer, and the client's fields.
C15_ErrorOutOfBand ==
    [][ErrorEvent(<<"timeout">>) =>
           /\ messages' = messages
           /\ error' # NoError
           /\ ~isStreaming'
           /\ UNCHANGED <<usage, pendingText, debouncePending, cvars>>
      ]_vars

\* an error event was processed after the assistant message was opened and a
\* tool call announced
C15_Witness ==
    /\ error = <<"Request timed out. The server might be busy. Please try again.">>
    /\ ~isStreaming
    /\ Len(messages) = 3
    /\ messages[3].type = "tool_call"

\* C16: when stream_complete is processed while the debounce timer is pending,
\* the pending text is not lost: right after the event the assistant message
\* opened by the latest response.created shows it. (The pending text is the
\* text of that response's deltas and the final_output taken is that text
\* itself, so that an overwrite by a different final text is not counted.)
C16_PendingTextFlushed ==
    LET e == StreamCompleteEvent(messageBuffer)
        h == ApplyCallbacks(Hook, handleEvent(Client, e).cbs)
        k == LatestAssistant(messages)
    IN  (Open /\ debouncePending /\ pendingText = messageBuffer /\ k > 0) =>
            /\ ~h.debouncePending
            /\ OutputText(h.messages[k]) = pendingText

\* C18: wherever a handoff_requested run item is processed, right after it the
\* list is the list before plus one agent_handoff item of kind requested with
\* the event's target agent and reason; wherever a handoff_occured run item is
\* processed, plus one of kind completed with its target and previous agent.
C18_HandoffItemsAppended ==
    \A name \in {"handoff_requested", "handoff_occured"} :
        LET e == HandoffEvent(name)
            after == ApplyCallbacks(Hook, handleEvent(Client, e).cbs).messages
        IN  Open =>
                /\ Len(after) = Len(messages) + 1
                /\ SubSeq(after, 1, Len(messages)) = messages
                /\ after[Len(after)].type = "agent_handoff"
                /\ after[Len(after)].target_agent = e.target_agent
                /\ IF name = "handoff_requested"
                   THEN /\ after[Len(after)].handoff_type = "requested"
                        /\ after[Len(after)].reason = e.reason
                   ELSE /\ after[Len(after)].handoff_type = "completed"
                        /\ after[Len(after)].previous_agent = e.previous_agent

\* C19: a call whose accumulated arguments were not valid JSON at
\* response.function_call_arguments.done still proceeds. Wherever its
\* tool_called run item (carrying no arguments of its own) is processed after
\* that, exactly one tool-called notification is emitted, its arguments are the
\* empty object, and the stream is not ended.
C19_MalformedArgumentsProceed ==
    \A k \in Calls, ided \in BOOLEAN :
        LET e == ToolCalledEvent("", Undefined, IF ided THEN BackendCallId(k) ELSE "")
            r == handleEvent(Client, e)
        IN  (Open /\ calls[k].stage = "done" /\ calls[k].malformed) =>
                /\ Len(r.cbs) = 1
                /\ r.cbs[1].cb = "onToolCalled"
                /\ r.cbs[1].args = {}
                /\ ~r.c.isComplete

\* C21: tool-output matching is by call id first and by name as a fallback.
\* Wherever a tool_output event is processed: if an item has the notification's
\* call id, only items with that call id are changed; if none has it, the one
\* item changed is the earliest in_progress tool_call item with the
\* notification's tool name, which becomes completed with the output.
C21_CallIdThenName ==
    \A e \in NextToolOutputs :
        LET cb == handleEvent(Client, e).cbs[1]
            after == ApplyCallback(Hook, cb).messages
            ById == {i \in 1 .. Len(messages) :
                        messages[i].type = "tool_call" /\ messages[i].call_id = cb.callId}
            ByName == {i \in 1 .. Len(messages) :
                          /\ messages[i].type = "tool_call"
                          /\ messages[i].name = cb.toolName
                          /\ messages[i].status = "in_progress"}
            changed == {i \in 1 .. Len(messages) : after[i] # messages[i]}
        IN  /\ Len(after) = Len(messages)
            /\ IF ById # {} THEN changed \subseteq ById
               ELSE IF ByName # {}
               THEN LET first == CHOOSE i \in ByName : \A j \in ByName : i <= j
                    IN  /\ changed = {first}
                        /\ after[first] = [messages[first] EXCEPT !.output = cb.output,
                                                                  !.status = "completed"]
               ELSE changed = {}

\* C22: no logical tool call is lost. Every call whose tool_called run item has
\* been processed was announced by a tool-called notification of its own, and
\* the list holds at least as many tool_call items as there are such calls.
C22_NoCallLost ==
    LET called == {k \in Calls : calls[k].stage \in {"called", "output"}}
    IN  /\ \A k \in called : calls[k].notices >= 1
        /\ Cardinality({i \in 1 .. Len(messages) : messages[i].type = "tool_call"})
              >= Cardinality(called)

\* C23: call id resolution. A tool-called notification carries the explicit
\* call id of its call whenever the upstream gave one: the notification emitted
\* at response.function_call_arguments.done for a call whose argument deltas
\* carried a call_id has that call_id, and so has the notification emitted at
\* a tool_called run item that carries a call_id.
C23_ExplicitCallIdKept ==
    \A k \in Calls :
        LET done == handleEvent(Client, RawResponse("response.function_call_arguments.done"))
            Ids(cbs) == {cbs[i].callId : i \in {j \in 1 .. Len(cbs) : cbs[j].cb = "onToolCalled"}}
        IN  /\ (Open /\ calls[k].stage \in {"d1", "d2"}) =>
                  Ids(done.cbs) \subseteq {BackendCallId(k)}
            /\ (Open /\ (calls[k].stage = "done" \/ MayBegin(k))) =>
                  \A named \in BOOLEAN :
                      Ids(handleEvent(Client,
                              ToolCalledEvent(IF named THEN ToolName ELSE "",
                                              IF named THEN Defined(ArgsParis) ELSE Undefined,
                                              BackendCallId(k))).cbs)
                          \subseteq {BackendCallId(k)}

\* C24: the tool_output event of a call that was announced early, at
\* arguments.done, completes that call's item. Where k is the call announced
\* last, once, and the client still tracks it, its item (the one with the generated
\* id) is in the list, and wherever the tool_output of k is processed with the
\* backend's own call_id and tool_name, be the name the inferred one or
\* another, that item is completed with the given output right after it.
C24_EarlyItemCompleted ==
    \A k \in Calls, toolName \in {ToolName, "get_forecast"} :
        LET e == ToolOutputEvent(toolName, ToolOutputText, BackendCallId(k))
            after == ApplyCallbacks(Hook, handleEvent(Client, e).cbs).messages
            own == {i \in 1 .. Len(messages) :
                       /\ messages[i].type = "tool_call"
                       /\ messages[i].call_id = currentToolCall.callId}
        IN  (/\ Open
             /\ calls[k].early
             /\ calls[k].notices = 1
             /\ calls[k].stage \in {"done", "called"}
             /\ \A j \in Calls : j > k => calls[j].stage = "new"
             /\ currentToolCall.callId # "")
            => /\ own # {}
               /\ \A i \in own : /\ after[i].status = "completed"
                                  /\ after[i].output = ToolOutputText

\* the name the fields of args stand for, by the fixed priority of the groups
NameByPresence(args) ==
    LET Present(key) == \E p \in args : p[1] = key
    IN  IF Present("city") \/ Present("location") THEN "get_weather"
        ELSE IF Present("query") \/ Present("search") THEN "search_tool"
        ELSE IF Present("url") \/ Present("endpoint") THEN "web_request"
        ELSE IF Present("code") \/ Present("language") THEN "code_executor"
        ELSE "unknown_tool"

\* C25: the name a tool call is announced under is the explicit tool_name of a
\* tool_called run item when it has one; otherwise it is the name the fields
\* present in the parsed arguments stand for, by the priority city/location,
\* query/search, url/endpoint, code/language, and "unknown_tool" when none is
\* present, whatever the values of the fields are.
C25_NameResolution ==
    \A k \in Calls :
        /\ (Open /\ calls[k].stage = "d2"
                /\ JSONParseArguments(currentToolCall.arguments).ok)
           => LET cbs == handleEvent(
                             Client, RawResponse("response.function_call_arguments.done")).cbs
              IN  /\ Len(cbs) = 1
                  /\ cbs[1].cb = "onToolCalled"
                  /\ cbs[1].toolName =
                         NameByPresence(JSONParseArguments(currentToolCall.arguments).value)
        /\ (Open /\ (IF calls[k].stage = "done" THEN TRUE ELSE MayBegin(k)))
           => \A named \in BOOLEAN :
                  LET e == ToolCalledEvent(IF named THEN ToolName ELSE "",
                                           IF named THEN Defined(ArgsParis) ELSE Undefined,
                                           BackendCallId(k))
                      cbs == handleEvent(Client, e).cbs
                      inferred == IF currentToolCall.parsedArguments.defined
                                  THEN NameByPresence(currentToolCall.parsedArguments.value)
                                  ELSE "unknown_tool"
                  IN  \A i \in DOMAIN cbs :
                          cbs[i].cb = "onToolCalled"
                          => cbs[i].toolName = (IF named THEN ToolName ELSE inferred)

\* C26: an agent_updated event naming an agent other than the one tracked just
\* before it, which is the target of the last agent_handoff item of the list or the
\* default agent, appends one completed agent_handoff item with that agent as
\* target and the tracked agent as previous agent and changes nothing else of
\* the list; an agent_updated event naming the tracked agent leaves the list as
\* it is.  This also holds of an event handled before the list has been read
\* again after an earlier agent_updated event.
C26_HandoffOnAgentChange ==
    \A agentName \in Agents :
        Open
        => LET tracked == CurrentAgentOf(messages)
               r == handleEvent(Client, AgentUpdatedEvent(agentName))
               after == ApplyCallbacks(Hook, r.cbs).messages
           IN  IF agentName # tracked
               THEN after = Append(messages, AgentHandoffItem(agentName, tracked))
               ELSE after = messages

\* C27: a response.created event handled in any state of an open stream leaves
\* the list as it was with one assistant message of empty text appended at its
\* end, and leaves the text buffer of the client empty.
C27_ResponseCreatedOpensMessage ==
    Open
    => LET r == handleEvent(Client, RawResponse("response.created"))
           after == ApplyCallbacks(Hook, r.cbs).messages
       IN  /\ r.c.messageBuffer = ""
           /\ Len(after) = Len(messages) + 1
           /\ SubSeq(after, 1, Len(messages)) = messages
           /\ after[Len(after)] = Message("assistant", "")

\* a response.created event has been handled after text had been accumulated and
\* with an item of the stream in the list: the message it opened ends the list
\* and the buffer is empty
C27_Witness ==
    /\ responses = 1
    /\ messageBuffer = ""
    /\ pendingText # ""
    /\ Len(messages) >= 3
    /\ messages[Len(messages)] = Message("assistant", "")

\* the concatenations of at most n of the deltas of D
RECURSIVE Concatenations(_, _)
Concatenations(D, n) ==
    IF n = 0 THEN {""}
    ELSE LET shorter == Concatenations(D, n - 1)
         IN  shorter \union {x \o d : x \in shorter, d \in D}

\* the list prev with the content of its last item replaced
WithLastContent(prev, content) == [prev EXCEPT ![Len(prev)].content = content]

\* C28: in every state of an open stream, a reasoning delta and a refusal delta
\* change the list only when its last item is an assistant message, and then
\* only the part of their own type of that item: the delta is appended to the
\* text of the part, or the part is created at the end of the content with the
\* delta as text when the item has none.  A text delta changes no item, and the
\* timer it sets writes the full text of the latest delta into the text part of
\* the last item, if that is an assistant message, and nothing else.  So the text
\* of a reasoning or refusal part is always a concatenation of deltas of its
\* own kind, and no message has two parts of one type.
C28_IndependentParts ==
    /\ Open
       => \A type \in {"reasoning", "refusal"} :
              \A delta \in PartDeltas(type) :
                  LET r == handleEvent(Client, PartDeltaEvent(type, delta))
                      after == ApplyCallbacks(Hook, r.cbs).messages
                      lastItem == messages[Len(messages)]
                      i == ContentIndex(lastItem.content, type)
                  IN  /\ r.c = Client
                      /\ IF messages # <<>> /\ IsAssistantMessage(lastItem)
                         THEN after = WithLastContent(
                                          messages,
                                          IF i > 0
                                          THEN [lastItem.content EXCEPT
                                                    ![i].text = @ \o delta]
                                          ELSE Append(lastItem.content,
                                                      [type |-> type, text |-> delta]))
                         ELSE after = messages
    /\ Open
       => \A delta \in TextDeltas :
              LET r == handleEvent(Client, TextDeltaEvent(delta))
                  h == ApplyCallbacks(Hook, r.cbs)
              IN  /\ h.messages = messages
                  /\ h.pendingText = messageBuffer \o delta
                  /\ h.debouncePending
    /\ debouncePending
       => LET after == updateTextContent(messages, pendingText)
              lastItem == messages[Len(messages)]
          IN  IF messages # <<>> /\ IsAssistantMessage(lastItem)
              THEN after = WithLastContent(
                               messages,
                               [lastItem.content EXCEPT
                                    ![ContentIndex(lastItem.content, "output_text")].text =
                                        pendingText])
              ELSE after = messages
    /\ \A n \in 1 .. Len(messages) :
           messages[n].type = "message"
           => /\ \A i, j \in 1 .. Len(messages[n].content) :
                     messages[n].content[i].type = messages[n].content[j].type => i = j
              /\ ContentIndex(messages[n].content, "output_text") = 1
              /\ \A type \in {"reasoning", "refusal"} :
                     PartText(messages[n], type) \in Concatenations(PartDeltas(type), MaxDeltas)

\* a message holds a text the timer wrote, a refusal of one delta and, created
\* after it, a reasoning of two different deltas
C28_Witness ==
    /\ messages # <<>>
    /\ IsAssistantMessage(messages[Len(messages)])
    /\ messages[Len(messages)].content =
           <<OutputTextPart("a"), [type |-> "refusal", text |-> "f"],
             [type |-> "reasoning", text |-> "sr"]>>

\* C29: at most one timer is set at any time, and it is the one of debounceRef.
\* The stored text changes only when a text delta is handled, and is then the
\* full text accumulated up to and including that delta, with a timer left set;
\* a timer that fires writes the stored text, so the full text as of the latest
\* text delta, into the text part of the last item if that is an assistant
\* message, changes nothing else and leaves no timer set.
C29_DebounceLatest ==
    /\ [](timers = IF debouncePending THEN 1 ELSE 0)
    /\ [][pendingText' # pendingText
           => /\ \E delta \in TextDeltas : messageBuffer' = messageBuffer \o delta
              /\ pendingText' = messageBuffer'
              /\ timers' = 1
              /\ messages' = messages]_vars
    /\ [][(timers' < timers /\ isComplete' = isComplete)
           => /\ pendingText' = pendingText
              /\ timers' = 0
              /\ messages' =
                     IF IsAssistantMessage(messages[Len(messages)])
                     THEN WithLastContent(
                              messages,
                              [messages[Len(messages)].content EXCEPT
                                   ![ContentIndex(messages[Len(messages)].content,
                                                  "output_text")].text = pendingText])
                     ELSE messages]_vars

\* two text deltas have been handled and a timer has fired after the second:
\* the message of the response holds the full text, and no timer is set
C29_Witness ==
    /\ ~isComplete
    /\ responses = 1
    /\ timers = 0
    /\ pendingText = "aa"
    /\ messageBuffer = "aa"
    /\ IsAssistantMessage(messages[Len(messages)])
    /\ PartText(messages[Len(messages)], "output_text") = "aa"

\* C30: when the list ends with the assistant message of the current response
\* and a text delta of that response is handled, and then, before the timer of
\* the delta fires, a response.created event, a tool_called run item or an
\* agent_updated event is handled, the timer firing changes no item other than
\* the message of the response the delta belongs to.
C30_TextStaysInItsMessage ==
    (Open /\ IsAssistantMessage(messages[Len(messages)]))
    => \A e \in {RawResponse("response.created"),
                 ToolCalledEvent(ToolName, Defined(ArgsParis), BackendCallId(1)),
                 AgentUpdatedEvent("weather_agent")} :
           LET delta == handleEvent(Client, TextDeltaEvent("a"))
               h1 == ApplyCallbacks(Hook, delta.cbs)
               other == handleEvent(delta.c, e)
               h2 == ApplyCallbacks(h1, other.cbs)
               fired == updateTextContent(h2.messages, h2.pendingText)
           IN  /\ h2.timers = 1
               /\ Len(fired) = Len(h2.messages)
               /\ \A i \in 1 .. Len(fired) :
                      i # Len(messages) => fired[i] = h2.messages[i]

\* C32: while the hook takes the stream for running and its transport has not
\* ended, the client that reads it has not been stopped and its signal is not
\* aborted, so that the events that follow are handled; in particular after an
\* agent_updated event has appended an agent_handoff item that changes the
\* current agent the hook derives from the list.
C32_AgentChangeKeepsStream ==
    (isStreaming /\ req[1].pc = "fetch")
    => /\ ~isComplete
       /\ ~SignalAborted(Client)

\* events no case of the three switches names: two of an unknown type (the
\* second is an object without a type), two raw_response events and two
\* run_item events
UnhandledEvents ==
    {[type |-> "ping"], [type |-> "undefined"],
     RawResponse("response.in_progress"), RawResponse("response.output_item.done"),
     [type |-> "run_item", name |-> "tool_search_called"],
     [type |-> "run_item", name |-> "unknown_item"]}

\* C37: in every state of a stream, an event of an unknown type, a
\* raw_response event of an unhandled event_type and a run_item event of an
\* unhandled name invoke no callback, so that the hook (its items, its error,
\* its streaming flag) stays as it was, and leave the client, its text buffer
\* and its tool-call accumulator among the rest, as it was.
C37_UnknownEventsAbsorbed ==
    \A e \in UnhandledEvents :
        LET r == handleEvent(Client, e)
        IN  /\ r.cbs = <<>>
            /\ ApplyCallbacks(Hook, r.cbs) = Hook
            /\ r.c.messageBuffer = messageBuffer
            /\ r.c.currentToolCall = currentToolCall
            /\ r.c = Client

\* an unknown event arrives where text was accumulated, a tool call is in the
\* accumulator and the list holds the assistant message and the tool call
C37_Witness ==
    /\ Open
    /\ messageBuffer # ""
    /\ currentToolCall.callId # ""
    /\ \E i \in 1 .. Len(messages) : messages[i].type = "tool_call"
    /\ \E i \in 1 .. Len(messages) : IsAssistantMessage(messages[i])
    /\ handleEvent(Client, [type |-> "ping"]).cbs = <<>>

(***************************************************************************)
(* Claims about the retry and recovery controller.                         *)
(***************************************************************************)
\* C6: bounded retry. A request all of whose attempts fail with a transient
\* transport error never makes more than 3 retries after its first attempt,
\* and when it has settled it has made exactly 3, followed by exactly one
\* terminal notice, which is none of the retry notices.
C6_BoundedRetry ==
    /\ hist.transientOnly => hist.attempts <= 1 + maxRetries
    /\ (req[watched].pc = "done" /\ hist.transientOnly /\ hist.attempts >= 1) =>
          /\ hist.attempts = 1 + maxRetries
          /\ hist.terminal = 1
          /\ hist.last.kind = "terminal"

\* C7: startStream with an empty or white-space message hands exactly
\* 'Message cannot be empty' to onError, issues no request, creates no abort
\* controller and leaves the retry counter, the text buffer and the tool-call
\* accumulator as they were; the rejected request never makes an attempt.
C7_EmptyMessageRejected ==
    /\ \A m \in BlankMessages :
          IsBlank(m) =>
            LET out == startStream(Client, m)
            IN  /\ out.outcome = "invalid"
                /\ out.notify = <<MessageEmpty>>
                /\ out.c.ctlCount = ctlCount
                /\ out.c.abortController = abortController
                /\ out.c.aborted = aborted
                /\ out.c.retryCount = retryCount
                /\ out.c.messageBuffer = messageBuffer
                /\ out.c.currentToolCall = currentToolCall
    /\ hist.last.kind = "empty" =>
          /\ req[watched].pc = "done"
          /\ hist.attempts = 0
          /\ hist.notified = 1

\* a blank message was rejected while an earlier request was retrying
C7_Witness ==
    /\ hist.last.kind = "empty"
    /\ watched = 2
    /\ req[2].pc = "done"
    /\ req[1].pc = "backoff"
    /\ retryCount > 0

\* C8: once an attempt of a request has failed as service-unavailable (a 503
\* response, or a body tagged 'Backend service unavailable'), the request has
\* settled, the failure was surfaced by exactly one onError, and that message
\* carries the backend-unavailable remediation.
C8_ServiceUnavailableSurfaced ==
    hist.unavailableAt # <<>> =>
        /\ req[watched].pc = "done"
        /\ hist.notified = hist.unavailableAt[1] + 1
        /\ hist.last.remediation

\* C9: silent cancellation. After stopStream() a request that was in flight
\* (in an attempt or in a backoff) issues no further attempt and hands nothing
\* to onError.
C9_SilentCancellation ==
    hist.stopped => ~hist.attemptAfterStop /\ ~hist.noticeAfterStop

\* the attempts whose transport is live
ActiveAttempts == {r \in Requests : req[r].pc = "fetch" /\ req[r].signal \notin aborted}

\* C10: single-flight. At most one attempt of the client is active at a time.
C10_SingleFlight == Cardinality(ActiveAttempts) <= 1

\* C17: a step in which the attempt of a request fails or is aborted and the
\* request settles (the error is not retried, or the retries are used up)
\* leaves the conversation items as they were, and the pending text with them.
C17_FailureLeavesItems ==
    [][(\E r \in Requests :
           /\ \/ \E kind \in Failures : AttemptFails(r, kind)
              \/ AttemptAborted(r)
           /\ req'[r].pc = "done")
       => UNCHANGED <<messages, pendingText, debouncePending>>
      ]_vars

\* the second request has settled after its retries were used up, with the
\* items of both requests in the list
C17_Witness ==
    /\ watched = 2
    /\ req[2].pc = "done"
    /\ hist.attempts = maxRetries + 1
    /\ hist.terminal = 1
    /\ ~isStreaming
    /\ Len(messages) = 2

\* C20: an attempt that the proxy route answers with its 400 and a plain-text
\* body ('Missing message parameter', 'Missing sessionId parameter') is taken
\* for a validation error: wherever that answer arrives, the error is surfaced
\* by one notice that is no retry notice, and the request settles without a
\* retry.
C20_ProxyRejectionNotRetried ==
    \A r \in Requests :
        LET h == handleStreamError(Client, ErrorOf("r400text"))
        IN  (req[r].pc = "fetch" /\ req[r].signal \notin aborted) =>
                /\ h.next = "done"
                /\ NoticeClass(h.notify).kind = "other"
                /\ Includes(h.notify, "Request validation error")

\* C31: once no attempt and no backoff of any request made through the hook is
\* left, so that the transport of every stream has ended, isStreaming is false
\* and a further startStream of the hook is not refused; this also when the
\* body of the last attempt ended without a stream_complete event.
C31_StreamingFlagCleared ==
    (\A r \in Requests : ~InFlight(req[r])) => ~isStreaming

\* C33: when a retry of a request whose earlier attempt failed while its body
\* was read has received the stream to its stream_complete event, the list holds
\* one assistant message for each response.created event of that stream, if it
\* had any, and no more tool_call items than that stream announced tool calls,
\* if it announced any: what the failed attempts appended is not in the list a
\* second time.
C33_RetryDoesNotDuplicate ==
    LET announced == {k \in Calls : calls[k].stage # "new"}
    IN  (req[1].pc = "fetch" /\ req[1].inHandler /\ isComplete /\ ~SignalAborted(Client))
        => /\ responses >= 1
              => Cardinality({i \in 1 .. Len(messages) : IsAssistantMessage(messages[i])})
                     = responses
           /\ announced # {}
              => Cardinality({i \in 1 .. Len(messages) : messages[i].type = "tool_call"})
                     <= Cardinality(announced)

\* C34: when an attempt of the watched request is in flight, it is the k-th
\* attempt of the request and its failure would be answered by a retry, the
\* time slept before that retry, the k-th of the request, is k times the base
\* delay; and an attempt after the first begins only when a backoff ends.
C34_LinearBackoff ==
    /\ []((req[watched].pc = "fetch" /\ req[watched].signal \notin aborted)
          => LET h == handleStreamError(Client, ErrorOf("network"))
             IN  h.next = "backoff" => BackoffWait(h.c) = hist.attempts * retryDelay)
    /\ [][(hist.attempts' > hist.attempts /\ hist.attempts >= 1)
              => req[watched].pc = "backoff"]_vars

\* C35: whenever a request of the hook begins, that is whenever the hook calls
\* the client's startStream, the retry counter the call begins with is zero,
\* whatever the earlier requests of the client left in it.
C35_FreshRetryBudget ==
    [][\A r \in Requests :
          (req[r].pc = "idle" /\ req'[r].pc # "idle") => retryCount' = 0]_vars

\* the first request has used up its retries and heard the terminal notice,
\* and the second request has begun with the counter at zero
C35_Witness ==
    /\ watched = 1
    /\ req[1].pc = "done"
    /\ hist.terminal = 1
    /\ hist.attempts = 1 + maxRetries
    /\ req[2].pc = "fetch"
    /\ retryCount = 0

(***************************************************************************)
(* Claims about the frame decoder.                                         *)
(***************************************************************************)
IsPrefix(a, b) == Len(a) <= Len(b) /\ SubSeq(b, 1, Len(a)) = a

\* processStream run on the whole input delivered as one chunk
SingleChunk ==
    LET fresh == Acc(<<>>, <<>>, 0, FALSE)
        r == DecodeChunk(<<>>, Input, fresh)
    IN  DecodeRest(r.buffer, r.acc)

\* C1: chunking invariance. However the input is split into reads, the events
\* handed to handleEvent so far are a prefix of those of the single-chunk run,
\* and once processStream has returned they are exactly those of that run.
C1_ChunkingInvariance ==
    /\ IsPrefix(handled, SingleChunk.events)
    /\ streamStatus = "returned" => handled = SingleChunk.events

\* a data line was cut by a read boundary and its event was still delivered
C1_Witness ==
    /\ streamStatus = "returned"
    /\ cutInLine
    /\ inputLines = <<1, 2>>
    /\ Len(handled) = 2

\* what each wire line is expected to yield, read off the wire format alone
ExpectedOfLine(id) ==
    IF id = 1 THEN <<[type |-> "error", message |-> "x"]>>
    ELSE IF id \in {2, 6} THEN <<[type |-> "raw_response", message |-> ""]>>
    ELSE IF id = 8 THEN <<[type |-> "undefined", message |-> ""]>>
    ELSE <<>>

RECURSIVE ExpectedEvents(_)
ExpectedEvents(ids) ==
    IF ids = <<>> THEN <<>> ELSE ExpectedOfLine(Head(ids)) \o ExpectedEvents(Tail(ids))

IsErrorEvent(e) == e.type = "error"

\* C2: a data line whose payload is not JSON yields no event and no onError,
\* never makes processStream throw (so nothing is retried), and every
\* well-formed data line, before or after it, is handled in arrival order.
C2_MalformedFrameSkipped ==
    /\ streamStatus # "threw"
    /\ Len(surfaced) = Len(SelectSeq(handled, IsErrorEvent))
    /\ streamStatus = "returned" =>
          /\ handled = ExpectedEvents(inputLines)
          /\ eventCount = Len(handled)

\* a malformed frame followed by a well-formed error frame: one error event
C2_Witness ==
    /\ streamStatus = "returned"
    /\ inputLines = <<3, 1>>
    /\ handled = <<[type |-> "error", message |-> "x"]>>
    /\ surfaced = <<"x">>

\* C36: an error event ends nothing. handleError leaves the client as it
\* was (not complete, not aborted); the read loop never throws because of
\* it; and when processStream has returned, the events handled after an
\* error event are exactly those of the well-formed data lines that
\* followed its line in the body.
C36_ErrorEventDoesNotEnd ==
    /\ handleEvent(Client, [type |-> "error", message |-> <<"timeout">>]).c = Client
    /\ \A i \in 1 .. Len(inputLines) :
          inputLines[i] = 1 =>
             LET before == ExpectedEvents(SubSeq(inputLines, 1, i))
                 after  == ExpectedEvents(SubSeq(inputLines, i + 1, Len(inputLines)))
             IN  /\ streamStatus # "threw"
                 /\ streamStatus = "returned" =>
                       /\ Len(handled) = Len(before) + Len(after)
                       /\ SubSeq(handled, Len(before) + 1, Len(handled)) = after

\* an error frame followed by a text delta: both were handled, in order
C36_Witness ==
    /\ streamStatus = "returned"
    /\ inputLines = <<1, 2>>
    /\ handled = <<[type |-> "error", message |-> "x"],
                   [type |-> "raw_response", message |-> ""]>>
    /\ surfaced = <<"x">>

(***************************************************************************)
(* The history transformer                                                 *)
(***************************************************************************)
\* the record the loop took at its i-th iteration
RecordAt(i) == DatabaseRecords[databaseMessages[i]]

\* the places of the tool_call items carrying the call id c
ToolCallItemsOf(c) == {k \in 1 .. Len(items) : items[k].type = "tool_call" /\ items[k].call_id = c}

ExpectedShape(dbMsg) ==
    IF Tagged(dbMsg, "function_call_output") THEN <<>>
    ELSE IF Tagged(dbMsg, "function_call")
    THEN <<[type |-> "tool_call", id |-> Field(dbMsg, "id"), name |-> Field(dbMsg, "name"),
            call_id |-> Field(dbMsg, "call_id"), arguments |-> Field(dbMsg, "arguments")]>>
    ELSE IF Tagged(dbMsg, "message") THEN <<dbMsg>>
    ELSE IF "type" \notin DOMAIN dbMsg /\ "role" \in DOMAIN dbMsg /\ "content" \in DOMAIN dbMsg
    THEN <<[type |-> "message", role |-> dbMsg.role, content |-> dbMsg.content]>>
    ELSE <<>>

RECURSIVE ExpectedShapes(_)
ExpectedShapes(ids) ==
    IF ids = <<>> THEN <<>>
    ELSE ExpectedShape(DatabaseRecords[Head(ids)]) \o ExpectedShapes(Tail(ids))

\* an item without what an output record may have merged into it
ShapeOf(item) ==
    IF item.type = "tool_call"
    THEN [type |-> "tool_call", id |-> item.id, name |-> item.name,
          call_id |-> item.call_id, arguments |-> item.arguments]
    ELSE item

\* C38: the transformer preserves order and shape. It never fails on a
\* record; the items built from the records taken so far are, in the order of
\* the records, one tool_call item per function_call record, the record
\* itself per record tagged message, one message item with the same role and
\* content per untagged record, and nothing per function_call_output record;
\* and a function_call_output record no earlier function_call record carries
\* the call_id of leaves the items as they were.
C38_OrderAndShape ==
    /\ [](/\ transformStatus # "threw"
          /\ [k \in 1 .. Len(items) |-> ShapeOf(items[k])]
                = ExpectedShapes(SubSeq(databaseMessages, 1, dbIndex)))
    /\ [][(/\ dbIndex' = dbIndex + 1
           /\ Tagged(RecordAt(dbIndex + 1), "function_call_output")
           /\ \A i \in 1 .. dbIndex :
                  ~(/\ Tagged(RecordAt(i), "function_call")
                    /\ RecordAt(i).call_id = RecordAt(dbIndex + 1).call_id))
              => items' = items]_vars

(***************************************************************************)
(* Claims about the proxy route.                                           *)
(***************************************************************************)
\* the bytes of a sequence of chunks
RECURSIVE Flatten(_)
Flatten(chunks) == IF chunks = <<>> THEN <<>> ELSE Head(chunks) \o Flatten(Tail(chunks))

IsForwarded(chunk) == chunk # ErrorFrame

====
